---- MODULE Spec2Model ----
(***************************************************************************)
(* morseplayer: text to Morse audio.  Two programs share the encoder and   *)
(* the playback queue: the poll-driven program (src/morseplayer.c, the     *)
(* OpenBSD audio(4) device, samples counted in bytes) and the callback-    *)
(* driven program (src/unnamed/part_000, PortAudio, samples are floats).   *)
(* prog selects the program; the main thread's position is pc.             *)
(***************************************************************************)
EXTENDS Integers, Sequences, FiniteSets, TLC

(* ---- bounds of the model (scaled-down sizes, not program constants) ---- *)
MaxInput == 2
MaxFrames == 2
DitLen == 2
DahLen == 3
InCharLen == 2
InWordLen == 3
BlockSize == 2
HiWat == 2
PaRate == 4
MaxFetch == 4

(* ---- program constants ---- *)
ReadChunk == 64

(* the bounds main() puts on the -w and -c rates *)
MinRate == 1
MaxRate == 70

(* the last rate of the sweep of test_times *)
maxwpm == 100

(* sp_rate of the callback program *)
SampleRate == 44100

(* sizeof(float), the element mp_callback reads *)
SizeofFloat == 4

(* stands for UINT_MAX, the value of 0u - 1 (the model checker's integers  *)
(* are 32-bit signed; every length of the model is far below it)           *)
UIntMax == 2147483647

VARIABLES heap, regs, rates, prog, pc, input, fed, iseof, revents, pars, sounds,
          playhead, pl_freelist, nalloc, stream,
          enqlog, out, lastOut, topNsamps, drains, sinkLast, underruns,
          eofNsamps

vars == <<heap, regs, rates, prog, pc, input, fed, iseof, revents, pars, sounds,
          playhead, pl_freelist, nalloc, stream,
          enqlog, out, lastOut, topNsamps, drains, sinkLast, underruns,
          eofNsamps>>

Min(a, b) == IF a < b THEN a ELSE b

(* ---- the input alphabet of the streaming specification ---- *)
Alphabet == {101, 84, 32}

RECURSIVE StringsUpTo(_, _)
StringsUpTo(A, n) ==
    IF n = 0 THEN {<< >>}
    ELSE LET S == StringsUpTo(A, n - 1)
         IN S \cup {Append(s, a) : s \in {t \in S : Len(t) = n - 1}, a \in A}

Inputs == StringsUpTo(Alphabet, MaxInput)

SoundNames == {"dit", "dah", "inChar", "inWord", "quietBlock"}

(* ---- the Morse table, in table order ---- *)
morse_chars == <<
    [c |-> 97, m |-> <<".", "-">>],
    [c |-> 98, m |-> <<"-", ".", ".", ".">>],
    [c |-> 99, m |-> <<"-", ".", "-", ".">>],
    [c |-> 100, m |-> <<"-", ".", ".">>],
    [c |-> 101, m |-> <<".">>],
    [c |-> 102, m |-> <<".", ".", "-", ".">>],
    [c |-> 103, m |-> <<"-", "-", ".">>],
    [c |-> 104, m |-> <<".", ".", ".", ".">>],
    [c |-> 105, m |-> <<".", ".">>],
    [c |-> 106, m |-> <<".", "-", "-", "-">>],
    [c |-> 107, m |-> <<"-", ".", "-">>],
    [c |-> 108, m |-> <<".", "-", ".", ".">>],
    [c |-> 109, m |-> <<"-", "-">>],
    [c |-> 110, m |-> <<"-", ".">>],
    [c |-> 111, m |-> <<"-", "-", "-">>],
    [c |-> 112, m |-> <<".", "-", "-", ".">>],
    [c |-> 113, m |-> <<"-", "-", ".", "-">>],
    [c |-> 114, m |-> <<".", "-", ".">>],
    [c |-> 115, m |-> <<".", ".", ".">>],
    [c |-> 116, m |-> <<"-">>],
    [c |-> 117, m |-> <<".", ".", "-">>],
    [c |-> 118, m |-> <<".", ".", ".", "-">>],
    [c |-> 119, m |-> <<".", "-", "-">>],
    [c |-> 120, m |-> <<"-", ".", ".", "-">>],
    [c |-> 121, m |-> <<"-", ".", "-", "-">>],
    [c |-> 122, m |-> <<"-", "-", ".", ".">>],
    [c |-> 48, m |-> <<"-", "-", "-", "-", "-">>],
    [c |-> 49, m |-> <<".", "-", "-", "-", "-">>],
    [c |-> 50, m |-> <<".", ".", "-", "-", "-">>],
    [c |-> 51, m |-> <<".", ".", ".", "-", "-">>],
    [c |-> 52, m |-> <<".", ".", ".", ".", "-">>],
    [c |-> 53, m |-> <<".", ".", ".", ".", ".">>],
    [c |-> 54, m |-> <<"-", ".", ".", ".", ".">>],
    [c |-> 55, m |-> <<"-", "-", ".", ".", ".">>],
    [c |-> 56, m |-> <<"-", "-", "-", ".", ".">>],
    [c |-> 57, m |-> <<"-", "-", "-", "-", ".">>],
    [c |-> 47, m |-> <<"-", ".", ".", "-", ".">>],
    [c |-> 63, m |-> <<".", ".", "-", "-", ".", ".">>],
    [c |-> 44, m |-> <<"-", "-", ".", ".", "-", "-">>],
    [c |-> 46, m |-> <<".", "-", ".", "-", ".", "-">>],
    [c |-> 42, m |-> <<".", ".", ".", "-", ".", "-">>],
    [c |-> 43, m |-> <<".", "-", ".", "-", ".">>],
    [c |-> 61, m |-> <<"-", ".", ".", ".", "-">>],
    [c |-> 124, m |-> <<".", "-", ".", ".", ".">>]
>>

(* <ctype.h> in the "C" locale (no setlocale call in either program) *)
isupper(c) == c >= 65 /\ c <= 90

tolower(c) == IF isupper(c) THEN c + 32 ELSE c

isspace(c) == c = 32 \/ (c >= 9 /\ c <= 13)

(* a < b with the int a converted to unsigned: a negative a becomes a     *)
(* value above every u_int b of the model                                  *)
LtU(a, b) == a >= 0 /\ a < b

(* x - 1 on a u_int *)
DecU(x) == IF x = 0 THEN UIntMax ELSE x - 1

(* ---- the playback queue ---- *)
(* the queue state threaded through the encoder:                          *)
(* [playhead, pl_freelist, nalloc, enqlog, sp_seenspace]                   *)

(* faulty variant: a new slot is allocated whatever the free pool holds *)
pl_alloc_fresh(S) ==
    LET S1 == [S EXCEPT !.pl_freelist =
                  <<[slot |-> S.nalloc + 1, pl_snd |-> "none",
                     pl_ptr |-> 0, pl_res |-> 0]>> \o @,
                        !.nalloc = @ + 1]
    IN [e |-> Head(S1.pl_freelist),
        S |-> [S1 EXCEPT !.pl_freelist = Tail(@)]]

(* x_malloc only if SIMPLEQ_EMPTY(&pl_freelist.l); the entry handed out is *)
(* the first of the free list                                              *)
pl_alloc(S) ==
    LET S1 == IF S.pl_freelist = << >>
              THEN [S EXCEPT !.pl_freelist =
                        <<[slot |-> S.nalloc + 1, pl_snd |-> "none",
                           pl_ptr |-> 0, pl_res |-> 0]>>,
                             !.nalloc = @ + 1]
              ELSE S
    IN [e |-> Head(S1.pl_freelist),
        S |-> [S1 EXCEPT !.pl_freelist = Tail(@)]]

(* faulty variant: the entry is linked at the head of the queue *)
playlist_enqueue_head(S, e) ==
    [S EXCEPT !.playhead = [l |-> <<e>> \o @.l,
                            nent |-> @.nent + 1,
                            nsamps |-> @.nsamps + sounds[e.pl_snd].len]]

playlist_enqueue(S, e) ==
    [S EXCEPT !.playhead = [l |-> Append(@.l, e),
                            nent |-> @.nent + 1,
                            nsamps |-> @.nsamps + sounds[e.pl_snd].len]]

(* faulty variant: the aggregate sample count is not updated *)
enqueue_sound_nocount(S, snd, len) ==
    LET a == pl_alloc(S)
        e == [a.e EXCEPT !.pl_snd = snd, !.pl_ptr = 0, !.pl_res = len]
        Q == playlist_enqueue(a.S, e)
    IN [Q EXCEPT !.enqlog = Append(@, snd),
                 !.playhead.nsamps = S.playhead.nsamps]

enqueue_sound(S, snd, len) ==
    LET a == pl_alloc(S)
        e == [a.e EXCEPT !.pl_snd = snd, !.pl_ptr = 0, !.pl_res = len]
    IN [playlist_enqueue(a.S, e) EXCEPT !.enqlog = Append(@, snd)]

pl_free(S, e) == [S EXCEPT !.pl_freelist = Append(@, e)]

(* ---- the Morse encoder ---- *)
RECURSIVE play_symbols(_, _)
play_symbols(S, str) ==
    IF str = << >> THEN S
    ELSE play_symbols(IF Head(str) = "."
                      THEN enqueue_sound(S, "dit", sounds["dit"].len)
                      ELSE enqueue_sound(S, "dah", sounds["dah"].len),
                      Tail(str))

play_string(S, str) ==
    enqueue_sound(play_symbols(S, str), "inChar", sounds["inChar"].len)

RECURSIVE table_search(_, _)
table_search(c, i) ==
    IF i > Len(morse_chars) THEN 0
    ELSE IF morse_chars[i].c = c THEN i
    ELSE table_search(c, i + 1)

(* faulty variant: the byte is looked up as it came, without tolower *)
convert_char_nolower(S, c0) ==
    LET i == table_search(c0, 1)
    IN IF i = 0 THEN S ELSE play_string(S, morse_chars[i].m)

(* faulty variant: a byte that is not in the table still gets its gap *)
convert_char_missgap(S, c0) ==
    LET c == IF c0 < 128 /\ isupper(c0) THEN tolower(c0) ELSE c0
        i == table_search(c, 1)
    IN IF i = 0 THEN enqueue_sound(S, "inChar", sounds["inChar"].len)
       ELSE play_string(S, morse_chars[i].m)

convert_char(S, c0) ==
    LET c == IF c0 < 128 /\ isupper(c0) THEN tolower(c0) ELSE c0
        i == table_search(c, 1)
    IN IF i = 0 THEN S ELSE play_string(S, morse_chars[i].m)

(* faulty variant: the whitespace branch never sets the flag *)
fetch_byte_noflag(S, c) ==
    IF c >= 128 \/ ~isspace(c)
    THEN [convert_char(S, c) EXCEPT !.sp_seenspace = 0]
    ELSE IF S.sp_seenspace = 0
    THEN enqueue_sound(S, "inWord", sounds["inWord"].len)
    ELSE S

(* the body of the for loop of fetch_chars, for the byte c[i] *)
fetch_byte(S, c) ==
    IF c >= 128 \/ ~isspace(c)
    THEN [convert_char(S, c) EXCEPT !.sp_seenspace = 0]
    ELSE IF S.sp_seenspace = 0
    THEN [enqueue_sound(S, "inWord", sounds["inWord"].len)
             EXCEPT !.sp_seenspace = 1]
    ELSE S

(* the for loop, byte after byte (nalloc is never negative: the test only  *)
(* has the state after a byte computed before the next byte is taken)      *)
RECURSIVE fetch_loop(_, _)
fetch_loop(S, c) ==
    IF c = << >> THEN S
    ELSE LET S1 == fetch_byte(S, Head(c))
         IN IF S1.nalloc >= 0 THEN fetch_loop(S1, Tail(c)) ELSE S1

(* ---- samples handed to the sink ---- *)
(* a sample is named by the segment buffer and the offset it was read at   *)
Sample(snd, off) == [snd |-> snd, off |-> off]

(* the literal 0.0f of mp_callback *)
Zero == Sample("zero", 0)

(* what a read through a dangling pointer may yield besides the old value *)
Garbage == Sample("freed", 0)

ReadBuf(snd, off, stale) ==
    IF sounds[snd].buf = "alloc" \/ stale THEN Sample(snd, off) ELSE Garbage

(* write(fd, buf + off, n): the n bytes handed to the device *)
WriteBytes(snd, off, n) == [k \in 1..n |-> ReadBuf(snd, off + k - 1, TRUE)]

(* one stereo frame of the callback's output buffer *)
Frame(l, r) == [left |-> l, right |-> r]

(* substituted silence: a byte of the idle block, a frame of 0.0f *)
IsSilence(u) ==
    IF prog = "poll" THEN u.snd = "quietBlock" ELSE u.left = Zero

(* faulty variant: a partial consume does not advance the cursor *)
RECURSIVE feed_loop_nocursor(_, _)
feed_loop_nocursor(C, res) ==
    IF res = 0 THEN C
    ELSE IF C.playhead.l = << >>
    THEN [C EXCEPT !.wr = @ \o WriteBytes("quietBlock", 0, res)]
    ELSE LET e == Head(C.playhead.l)
         IN IF e.pl_res > res
            THEN [C EXCEPT !.wr = @ \o WriteBytes(e.pl_snd, e.pl_ptr, res),
                           !.playhead.l = <<[e EXCEPT !.pl_res = @ - res]>>
                                          \o Tail(@),
                           !.playhead.nsamps = @ - res]
            ELSE feed_loop_nocursor(
                   pl_free([C EXCEPT
                              !.wr = @ \o WriteBytes(e.pl_snd, e.pl_ptr, e.pl_res),
                              !.playhead = [l |-> Tail(@.l),
                                            nent |-> @.nent - 1,
                                            nsamps |-> @.nsamps - e.pl_res]],
                           e),
                   res - e.pl_res)

(* faulty variant: a head entry longer than the rest of the block is not  *)
(* consumed; the idle block is written in its place                        *)
RECURSIVE feed_loop_stuck(_, _)
feed_loop_stuck(C, res) ==
    IF res = 0 THEN C
    ELSE IF C.playhead.l = << >>
    THEN [C EXCEPT !.wr = @ \o WriteBytes("quietBlock", 0, res)]
    ELSE LET e == Head(C.playhead.l)
         IN IF e.pl_res > res
            THEN [C EXCEPT !.wr = @ \o WriteBytes("quietBlock", 0, res)]
            ELSE feed_loop_stuck(
                   pl_free([C EXCEPT
                              !.wr = @ \o WriteBytes(e.pl_snd, e.pl_ptr, e.pl_res),
                              !.playhead = [l |-> Tail(@.l),
                                            nent |-> @.nent - 1,
                                            nsamps |-> @.nsamps - e.pl_res]],
                           e),
                   res - e.pl_res)

(* faulty variant: the idle block is charged to the aggregate count *)
RECURSIVE feed_loop_idlecount(_, _)
feed_loop_idlecount(C, res) ==
    IF res = 0 THEN C
    ELSE IF C.playhead.l = << >>
    THEN [C EXCEPT !.wr = @ \o WriteBytes("quietBlock", 0, res),
                   !.playhead.nsamps = @ - res]
    ELSE LET e == Head(C.playhead.l)
         IN IF e.pl_res > res
            THEN [C EXCEPT !.wr = @ \o WriteBytes(e.pl_snd, e.pl_ptr, res),
                           !.playhead.l = <<[e EXCEPT !.pl_ptr = @ + res,
                                                      !.pl_res = @ - res]>>
                                          \o Tail(@),
                           !.playhead.nsamps = @ - res]
            ELSE feed_loop_idlecount(
                   pl_free([C EXCEPT
                              !.wr = @ \o WriteBytes(e.pl_snd, e.pl_ptr, e.pl_res),
                              !.playhead = [l |-> Tail(@.l),
                                            nent |-> @.nent - 1,
                                            nsamps |-> @.nsamps - e.pl_res]],
                           e),
                   res - e.pl_res)

(* ---- poll program: feed_audio, one block to the audio device ---- *)
(* C: [playhead, pl_freelist, wr]; wr collects the bytes written           *)
RECURSIVE feed_loop(_, _)
feed_loop(C, res) ==
    IF res = 0 THEN C
    ELSE IF C.playhead.l = << >>
    THEN [C EXCEPT !.wr = @ \o WriteBytes("quietBlock", 0, res)]
    ELSE LET e == Head(C.playhead.l)
         IN IF e.pl_res > res
            THEN [C EXCEPT !.wr = @ \o WriteBytes(e.pl_snd, e.pl_ptr, res),
                           !.playhead.l = <<[e EXCEPT !.pl_ptr = @ + res,
                                                      !.pl_res = @ - res]>>
                                          \o Tail(@),
                           !.playhead.nsamps = @ - res]
            ELSE feed_loop(
                   pl_free([C EXCEPT
                              !.wr = @ \o WriteBytes(e.pl_snd, e.pl_ptr, e.pl_res),
                              !.playhead = [l |-> Tail(@.l),
                                            nent |-> @.nent - 1,
                                            nsamps |-> @.nsamps - e.pl_res]],
                           e),
                   res - e.pl_res)

(* faulty variant: the block handed to the device is one byte short *)
feed_audio_short(C) == feed_loop(C, pars.sp_blocksize - 1)

feed_audio(C) == feed_loop(C, pars.sp_blocksize)

(* ---- callback program: mp_callback, framesPerBuffer stereo frames ---- *)
RECURSIVE mp_loop(_, _, _)
mp_loop(C, n, stale) ==
    IF n = 0 THEN C
    ELSE IF C.playhead.l = << >>
    THEN mp_loop([C EXCEPT !.wr = Append(@, Frame(Zero, Zero))], n - 1, stale)
    ELSE LET e == Head(C.playhead.l)
             s == ReadBuf(e.pl_snd, e.pl_ptr, stale)
             e1 == [e EXCEPT !.pl_ptr = @ + 1,
                             !.pl_res = DecU(@)]
             C1 == [C EXCEPT !.wr = Append(@, Frame(s, s)),
                             !.playhead.nsamps = @ - 1]
         IN IF e1.pl_res = 0
            THEN mp_loop(pl_free([C1 EXCEPT !.playhead.nent = @ - 1,
                                            !.playhead.l = Tail(@)], e1),
                         n - 1, stale)
            ELSE mp_loop([C1 EXCEPT !.playhead.l = <<e1>> \o Tail(@)],
                         n - 1, stale)

(* faulty variant: the sample goes to the left channel only *)
mp_callback_mono(C, framesPerBuffer, stale) ==
    LET R == mp_loop(C, framesPerBuffer, stale)
    IN [R EXCEPT !.wr = [k \in DOMAIN R.wr |-> Frame(R.wr[k].left, Zero)]]

mp_callback(C, framesPerBuffer, stale) == mp_loop(C, framesPerBuffer, stale)

(* the part of one operation's output that came from the queue *)
FromQueue(wr) == SelectSeq(wr, LAMBDA u : ~IsSilence(u))

(* ---- the memory behind a segment ---- *)
(* bytes passed to x_malloc for segment n: build_snd asks for snd->len     *)
(* bytes in the poll program (len counts bytes) and for                    *)
(* snd->len * sizeof(float) in the callback program (len counts samples);  *)
(* build_silence asks for snd->len bytes in both                           *)
AllocBytes(n) ==
    IF prog = "callback" /\ n \in {"dit", "dah"}
    THEN sounds[n].len * SizeofFloat
    ELSE sounds[n].len

(* bytes one read through pl_ptr takes: a byte of the block handed to      *)
(* write(2), a float in mp_callback                                        *)
ElemBytes == IF prog = "poll" THEN 1 ELSE SizeofFloat

(* ---- state after main() has configured and built everything ---- *)
BuiltSounds(blocksize) ==
    [n \in SoundNames |->
        [len |-> CASE n = "dit" -> DitLen
                   [] n = "dah" -> DahLen
                   [] n = "inChar" -> InCharLen
                   [] n = "inWord" -> InWordLen
                   [] OTHER -> blocksize,
         buf |-> "alloc"]]

(* the locals of the two threads, as long as no step inside an operation  *)
(* is looked at                                                            *)
NoRegs == [todo |-> << >>, e |-> 0, t |-> 0, cbpc |-> "cb_top", cbe |-> 0,
           cbt |-> 0]

(* the rates main() settles on when neither -w nor -c is given *)
DefaultRates == [owpm |-> 5, cwpm |-> 18, overallwpm |-> 5, charwpm |-> 18]

Init ==
    /\ heap = << >>
    /\ regs = NoRegs
    /\ rates = DefaultRates
    /\ prog \in {"poll", "callback"}
    /\ input \in Inputs
    /\ fed = << >>
    /\ iseof = 0
    /\ revents = [in |-> FALSE, out |-> FALSE]
    /\ \/ /\ prog = "poll"
          /\ pc = "kick"
          /\ pars = [sp_sampthresh |-> BlockSize * HiWat,
                     sp_blocksize |-> BlockSize, sp_seenspace |-> 0]
          /\ stream = "none"
       \/ /\ prog = "callback"
          /\ pc = "top"
          /\ \E ss \in {0, 1} :
                pars = [sp_sampthresh |-> PaRate,
                        sp_blocksize |-> BlockSize, sp_seenspace |-> ss]
          /\ stream = "active"
    /\ sounds = BuiltSounds(pars.sp_blocksize)
    /\ playhead = [l |-> << >>, nent |-> 0, nsamps |-> 0]
    /\ pl_freelist = << >>
    /\ nalloc = 0
    /\ enqlog = << >>
    /\ out = << >>
    /\ lastOut = << >>
    /\ topNsamps = -1
    /\ drains = 0
    /\ sinkLast = "none"
    /\ underruns = 0
    /\ eofNsamps = -1

(* ---- poll program: the block of silence that kicks /dev/audio ---- *)
Kick ==
    /\ pc = "kick"
    /\ lastOut' = WriteBytes("quietBlock", 0, sounds["quietBlock"].len)
    /\ sinkLast' = "write"
    /\ pc' = "top"
    /\ UNCHANGED <<heap, regs, rates, prog, input, fed, iseof, revents, pars, sounds,
                   playhead, pl_freelist, nalloc, stream, enqlog, out,
                   topNsamps, drains, underruns, eofNsamps>>

(* faulty variant: stdin stays registered after end-of-input *)
WantInput_noeof == LtU(playhead.nsamps, pars.sp_sampthresh)

(* faulty variant: stdin is registered whatever the queue holds *)
WantInput_nothresh == iseof = 0

(* faulty variant: stdin is registered up to the threshold itself *)
WantInput_atthresh ==
    playhead.nsamps >= 0 /\ playhead.nsamps <= pars.sp_sampthresh /\ iseof = 0

(* top of the for(;;): register stdin only under the threshold *)
WantInput == LtU(playhead.nsamps, pars.sp_sampthresh) /\ iseof = 0

(* one pass over the top of the for(;;): stdin is put in the poll set only *)
(* if WantInput, then poll(2) returns revents: of stdin only if it is in   *)
(* the set, of the audio device in the poll program only (the callback     *)
(* program polls stdin alone, with a 1000 ms timeout; the poll program     *)
(* waits with INFTIM until something is ready).  revents keeps the events  *)
(* the iteration has still to handle.                                      *)
LoopTop ==
    /\ pc = "top"
    /\ \E rin \in BOOLEAN, rout \in BOOLEAN :
          /\ rin => WantInput
          /\ rout => prog = "poll"
          /\ prog = "poll" => (rin \/ rout)
          /\ revents' = [in |-> rin, out |-> rout]
          /\ pc' = IF rin THEN "in" ELSE IF rout THEN "out" ELSE "top"
          /\ topNsamps' = IF rin \/ rout THEN playhead.nsamps ELSE -1
    /\ UNCHANGED <<heap, regs, rates, prog, input, fed, iseof, pars, sounds,
                   playhead, pl_freelist, nalloc, stream, enqlog, out,
                   lastOut, drains, sinkLast, underruns, eofNsamps>>

EncState ==
    [playhead |-> playhead, pl_freelist |-> pl_freelist, nalloc |-> nalloc,
     enqlog |-> enqlog, sp_seenspace |-> pars.sp_seenspace]

(* fetch_chars: one read of up to 64 bytes; a zero-length read is EOF *)
FetchChars ==
    /\ pc = "in"
    /\ \/ /\ input = << >>
          /\ IF prog = "poll"
             THEN /\ iseof' = 1
                  /\ pc' = IF revents.out THEN "out" ELSE "top"
             ELSE /\ iseof' = iseof
                  /\ pc' = "destroy_sounds"
          /\ eofNsamps' = playhead.nsamps
          /\ UNCHANGED <<input, pars, playhead, pl_freelist, nalloc, enqlog>>
       \/ /\ input # << >>
          /\ \E r \in 1..Min(ReadChunk, Len(input)) :
                LET S == fetch_loop(EncState, SubSeq(input, 1, r))
                IN /\ input' = SubSeq(input, r + 1, Len(input))
                   /\ playhead' = S.playhead
                   /\ pl_freelist' = S.pl_freelist
                   /\ nalloc' = S.nalloc
                   /\ enqlog' = S.enqlog
                   /\ pars' = [pars EXCEPT !.sp_seenspace = S.sp_seenspace]
          /\ iseof' = iseof
          /\ eofNsamps' = eofNsamps
          /\ pc' = IF revents.out THEN "out" ELSE "top"
    /\ revents' = [revents EXCEPT !.in = FALSE]
    /\ topNsamps' = IF pc' = "out" THEN topNsamps ELSE -1
    /\ UNCHANGED <<heap, regs, rates, prog, fed, sounds, stream, out, lastOut,
                   drains, sinkLast, underruns>>

ConsState == [playhead |-> playhead, pl_freelist |-> pl_freelist, wr |-> << >>]

(* faulty variant: the loop ends as soon as the queue is empty *)
LoopExit_noeof(eof, head) == head.l = << >>

(* the exit test of the poll program's loop *)
LoopExit(eof, head) == eof # 0 /\ head.l = << >>

(* the POLLOUT branch: feed_audio, then the exit test and AUDIO_DRAIN *)
FeedAudio ==
    /\ pc = "out"
    /\ LET C == feed_audio(ConsState)
       IN /\ playhead' = C.playhead
          /\ pl_freelist' = C.pl_freelist
          /\ lastOut' = C.wr
          /\ out' = out \o FromQueue(C.wr)
          /\ underruns' = IF playhead.l = << >> THEN Min(underruns + 1, 2)
                          ELSE underruns
          /\ IF LoopExit(iseof, C.playhead)
             THEN /\ drains' = drains + 1
                  /\ sinkLast' = "drain"
                  /\ pc' = "destroy_sounds"
             ELSE /\ drains' = drains
                  /\ sinkLast' = "write"
                  /\ pc' = "top"
    /\ revents' = [revents EXCEPT !.out = FALSE]
    /\ topNsamps' = -1
    /\ UNCHANGED <<heap, regs, rates, prog, input, fed, iseof, pars, sounds,
                   nalloc, stream, enqlog, eofNsamps>>

(* the audio thread of the callback program *)
MpCallback ==
    /\ prog = "callback"
    /\ stream = "active"
    /\ \E F \in 1..MaxFrames,
          stale \in IF \A n \in SoundNames : sounds[n].buf = "alloc"
                    THEN {TRUE} ELSE BOOLEAN :
          LET C == mp_callback(ConsState, F, stale)
          IN /\ playhead' = C.playhead
             /\ pl_freelist' = C.pl_freelist
             /\ lastOut' = C.wr
             /\ out' = out \o FromQueue(C.wr)
    /\ underruns' = IF playhead.l = << >> THEN Min(underruns + 1, 2)
                    ELSE underruns
    /\ sinkLast' = "write"
    /\ UNCHANGED <<heap, regs, rates, prog, pc, input, fed, iseof, revents, pars, sounds,
                   nalloc, stream, enqlog, topNsamps, drains, eofNsamps>>

(* main() after main_loop returns *)
DestroySounds ==
    /\ pc = "destroy_sounds"
    /\ sounds' = [n \in SoundNames |-> [len |-> 0, buf |-> "null"]]
    /\ pc' = "playlist_destroy"
    /\ UNCHANGED <<heap, regs, rates, prog, input, fed, iseof, revents, pars,
                   playhead, pl_freelist, nalloc, stream, enqlog, out,
                   lastOut, topNsamps, drains, sinkLast, underruns, eofNsamps>>

PlaylistDestroy ==
    /\ pc = "playlist_destroy"
    /\ playhead' = [playhead EXCEPT !.l = << >>]
    /\ pl_freelist' = << >>
    /\ pc' = IF prog = "callback" THEN "terminate" ELSE "done"
    /\ UNCHANGED <<heap, regs, rates, prog, input, fed, iseof, revents, pars, sounds,
                   nalloc, stream, enqlog, out, lastOut, topNsamps, drains,
                   sinkLast, underruns, eofNsamps>>

PaTerminate ==
    /\ pc = "terminate"
    /\ stream' = "stopped"
    /\ pc' = "done"
    /\ UNCHANGED <<heap, regs, rates, prog, input, fed, iseof, revents, pars, sounds,
                   playhead, pl_freelist, nalloc, enqlog, out, lastOut,
                   topNsamps, drains, sinkLast, underruns, eofNsamps>>

(* err(1, ...): a failed read, write, poll or ioctl ends the process *)
Err ==
    /\ pc \in {"kick", "top", "in", "out"}
    /\ pc' = "failed"
    /\ stream' = IF prog = "callback" THEN "stopped" ELSE stream
    /\ UNCHANGED <<heap, regs, rates, prog, input, fed, iseof, revents, pars, sounds,
                   playhead, pl_freelist, nalloc, enqlog, out, lastOut,
                   topNsamps, drains, sinkLast, underruns, eofNsamps>>

MainStep ==
    \/ Kick
    \/ LoopTop
    \/ FetchChars
    \/ FeedAudio
    \/ DestroySounds
    \/ PlaylistDestroy
    \/ PaTerminate

Next ==
    \/ MainStep
    \/ MpCallback
    \/ Err

Spec == Init /\ [][Next]_vars

(* ---- the stream loop on an input that fills whole reads ---- *)
(* stdin is a regular file: every read() returns 64 bytes as long as 64    *)
(* are left.  First 'T' and 63 times 'e', then 64 times ',' (the longest   *)
(* pattern of the table, with '?', '.' and '*') or 64 times 'e'.           *)
FillInputs ==
    {<<84>> \o [i \in 1..(ReadChunk - 1) |-> 101] \o [i \in 1..ReadChunk |-> b] :
        b \in {44, 101}}

InitFill ==
    /\ heap = << >>
    /\ regs = NoRegs
    /\ rates = DefaultRates
    /\ prog \in {"poll", "callback"}
    /\ input \in FillInputs
    /\ fed = << >>
    /\ iseof = 0
    /\ revents = [in |-> FALSE, out |-> FALSE]
    /\ \/ /\ prog = "poll"
          /\ pc = "kick"
          /\ pars = [sp_sampthresh |-> BlockSize * HiWat,
                     sp_blocksize |-> BlockSize, sp_seenspace |-> 0]
          /\ stream = "none"
       \/ /\ prog = "callback"
          /\ pc = "top"
          /\ \E ss \in {0, 1} :
                pars = [sp_sampthresh |-> PaRate,
                        sp_blocksize |-> BlockSize, sp_seenspace |-> ss]
          /\ stream = "active"
    /\ sounds = BuiltSounds(pars.sp_blocksize)
    /\ playhead = [l |-> << >>, nent |-> 0, nsamps |-> 0]
    /\ pl_freelist = << >>
    /\ nalloc = 0
    /\ enqlog = << >>
    /\ out = << >>
    /\ lastOut = << >>
    /\ topNsamps = -1
    /\ drains = 0
    /\ sinkLast = "none"
    /\ underruns = 0
    /\ eofNsamps = -1

(* fetch_chars on a regular file: read() fills the buffer *)
FetchFull ==
    /\ pc = "in"
    /\ \/ /\ input = << >>
          /\ IF prog = "poll"
             THEN /\ iseof' = 1
                  /\ pc' = IF revents.out THEN "out" ELSE "top"
             ELSE /\ iseof' = iseof
                  /\ pc' = "destroy_sounds"
          /\ eofNsamps' = playhead.nsamps
          /\ UNCHANGED <<input, pars, playhead, pl_freelist, nalloc, enqlog>>
       \/ /\ input # << >>
          /\ LET r == Min(ReadChunk, Len(input))
                 S == fetch_loop(EncState, SubSeq(input, 1, r))
             IN /\ input' = SubSeq(input, r + 1, Len(input))
                /\ playhead' = S.playhead
                /\ pl_freelist' = S.pl_freelist
                /\ nalloc' = S.nalloc
                /\ enqlog' = S.enqlog
                /\ pars' = [pars EXCEPT !.sp_seenspace = S.sp_seenspace]
          /\ iseof' = iseof
          /\ eofNsamps' = eofNsamps
          /\ pc' = IF revents.out THEN "out" ELSE "top"
    /\ revents' = [revents EXCEPT !.in = FALSE]
    /\ topNsamps' = IF pc' = "out" THEN topNsamps ELSE -1
    /\ UNCHANGED <<heap, regs, rates, prog, fed, sounds, stream, out, lastOut,
                   drains, sinkLast, underruns>>

NextFill ==
    \/ Kick
    \/ LoopTop
    \/ FetchFull
    \/ FeedAudio
    \/ MpCallback
    \/ DestroySounds
    \/ PlaylistDestroy
    \/ PaTerminate
    \/ Err

SpecFill == InitFill /\ [][NextFill]_vars

(***************************************************************************)
(* The encoder on its own: convert_char applied to the bytes of a string,  *)
(* one call per step, on a queue that nothing consumes.                    *)
(***************************************************************************)
EncInputs ==
    {<<c>> : c \in 0..255}
    \cup {<<115, 111, 115>>, <<83, 79, 83>>, <<83, 111, 115>>, <<69, 101>>}

InitEnc ==
    /\ heap = << >>
    /\ regs = NoRegs
    /\ rates = DefaultRates
    /\ prog = "poll"
    /\ pc = "encode"
    /\ input \in EncInputs
    /\ fed = << >>
    /\ iseof = 0
    /\ revents = [in |-> FALSE, out |-> FALSE]
    /\ pars = [sp_sampthresh |-> BlockSize * HiWat,
               sp_blocksize |-> BlockSize, sp_seenspace |-> 0]
    /\ stream = "none"
    /\ sounds = BuiltSounds(pars.sp_blocksize)
    /\ playhead = [l |-> << >>, nent |-> 0, nsamps |-> 0]
    /\ pl_freelist = << >>
    /\ nalloc = 0
    /\ enqlog = << >>
    /\ out = << >>
    /\ lastOut = << >>
    /\ topNsamps = -1
    /\ drains = 0
    /\ sinkLast = "none"
    /\ underruns = 0
    /\ eofNsamps = -1

ConvertChar ==
    /\ pc = "encode"
    /\ input # << >>
    /\ LET S == convert_char(EncState, Head(input))
       IN /\ playhead' = S.playhead
          /\ pl_freelist' = S.pl_freelist
          /\ nalloc' = S.nalloc
          /\ enqlog' = S.enqlog
    /\ fed' = Append(fed, Head(input))
    /\ input' = Tail(input)
    /\ UNCHANGED <<heap, regs, rates, prog, pc, iseof, revents, pars, sounds, stream, out,
                   lastOut, topNsamps, drains, sinkLast, underruns, eofNsamps>>

NextEnc == ConvertChar

SpecEnc == InitEnc /\ [][NextEnc]_vars

(* ---- fetch_chars alone: the bytes of one read, taken one at a time ---- *)
(* 'e', space, tab, '@' and a byte above 0x7f *)
FetchAlphabet == {101, 32, 9, 64, 200}

FetchInputs ==
    {<<c>> : c \in 0..255} \cup StringsUpTo(FetchAlphabet, MaxFetch)

(* the poll program clears sp_seenspace before the loop; the callback     *)
(* program never assigns it, so it starts with whatever the stack held    *)
InitFetch ==
    /\ heap = << >>
    /\ regs = NoRegs
    /\ rates = DefaultRates
    /\ prog \in {"poll", "callback"}
    /\ pc = "fetch"
    /\ input \in FetchInputs
    /\ fed = << >>
    /\ iseof = 0
    /\ revents = [in |-> TRUE, out |-> FALSE]
    /\ \E ss \in {0, 1} :
          /\ prog = "poll" => ss = 0
          /\ pars = [sp_sampthresh |-> IF prog = "poll" THEN BlockSize * HiWat
                                                         ELSE PaRate,
                     sp_blocksize |-> BlockSize, sp_seenspace |-> ss]
    /\ stream = IF prog = "poll" THEN "none" ELSE "active"
    /\ sounds = BuiltSounds(pars.sp_blocksize)
    /\ playhead = [l |-> << >>, nent |-> 0, nsamps |-> 0]
    /\ pl_freelist = << >>
    /\ nalloc = 0
    /\ enqlog = << >>
    /\ out = << >>
    /\ lastOut = << >>
    /\ topNsamps = -1
    /\ drains = 0
    /\ sinkLast = "none"
    /\ underruns = 0
    /\ eofNsamps = -1

FetchByte ==
    /\ pc = "fetch"
    /\ input # << >>
    /\ LET S == fetch_byte(EncState, Head(input))
       IN /\ playhead' = S.playhead
          /\ pl_freelist' = S.pl_freelist
          /\ nalloc' = S.nalloc
          /\ enqlog' = S.enqlog
          /\ pars' = [pars EXCEPT !.sp_seenspace = S.sp_seenspace]
    /\ fed' = Append(fed, Head(input))
    /\ input' = Tail(input)
    /\ UNCHANGED <<heap, regs, rates, prog, pc, iseof, revents, sounds, stream, out,
                   lastOut, topNsamps, drains, sinkLast, underruns, eofNsamps>>

NextFetch == FetchByte

SpecFetch == InitFetch /\ [][NextFetch]_vars

(* ---- fetch_chars call after call: the input arrives in chunks ---- *)
(* faulty variant: every call starts with the seen-space flag cleared *)
fetch_chars_reset(S, c) == fetch_loop([S EXCEPT !.sp_seenspace = 0], c)

(* fetch_chars after read() has returned the r > 0 bytes c: the for loop;  *)
(* the function keeps nothing from one call to the next but what is in     *)
(* pars and in the queue                                                   *)
fetch_chars(S, c) == fetch_loop(S, c)

(* one call of fetch_chars: read() returns the next 1..64 bytes of stdin *)
FetchChunk ==
    /\ pc = "fetch"
    /\ input # << >>
    /\ \E r \in 1..Min(ReadChunk, Len(input)) :
          LET S == fetch_chars(EncState, SubSeq(input, 1, r))
          IN /\ playhead' = S.playhead
             /\ pl_freelist' = S.pl_freelist
             /\ nalloc' = S.nalloc
             /\ enqlog' = S.enqlog
             /\ pars' = [pars EXCEPT !.sp_seenspace = S.sp_seenspace]
             /\ fed' = fed \o SubSeq(input, 1, r)
             /\ input' = SubSeq(input, r + 1, Len(input))
    /\ UNCHANGED <<heap, regs, rates, prog, pc, iseof, revents, sounds, stream,
                   out, lastOut, topNsamps, drains, sinkLast, underruns,
                   eofNsamps>>

NextChunk == FetchChunk

SpecChunk == InitFetch /\ [][NextChunk]_vars

(* ---- main(): options and rate resolution, up to the stream loop ---- *)
(* -1 is what owpm and cwpm hold when the option was not given; the other *)
(* values are what getfloat stored, inside and outside [MinRate, MaxRate]  *)
RateArgs == {-1} \cup 0..(MaxRate + 1)

InitCfg ==
    /\ heap = << >>
    /\ regs = NoRegs
    /\ rates = [owpm |-> -1, cwpm |-> -1, overallwpm |-> 20, charwpm |-> 20]
    /\ prog \in {"poll", "callback"}
    /\ pc = "getopt"
    /\ input \in {<< >>, <<101>>}
    /\ fed = << >>
    /\ iseof = 0
    /\ revents = [in |-> FALSE, out |-> FALSE]
    /\ pars = [sp_sampthresh |-> 0, sp_blocksize |-> 0, sp_seenspace |-> 0]
    /\ stream = "none"
    /\ sounds = [n \in SoundNames |-> [len |-> 0, buf |-> "null"]]
    /\ playhead = [l |-> << >>, nent |-> 0, nsamps |-> 0]
    /\ pl_freelist = << >>
    /\ nalloc = 0
    /\ enqlog = << >>
    /\ out = << >>
    /\ lastOut = << >>
    /\ topNsamps = -1
    /\ drains = 0
    /\ sinkLast = "none"
    /\ underruns = 0
    /\ eofNsamps = -1

(* the getopt loop: -w and -c each absent or given; a value outside       *)
(* [MinRate, MaxRate] ends the process with the usage message             *)
GetOpt ==
    /\ pc = "getopt"
    /\ \E w \in RateArgs, c \in RateArgs :
          IF \/ (w # -1 /\ (w < MinRate \/ w > MaxRate))
             \/ (c # -1 /\ (c < MinRate \/ c > MaxRate))
          THEN /\ pc' = "usage_exit"
               /\ rates' = rates
          ELSE /\ pc' = "resolve"
               /\ rates' = [rates EXCEPT !.owpm = w, !.cwpm = c]
    /\ UNCHANGED <<heap, regs, prog, input, fed, iseof, revents, pars, sounds,
                   playhead, pl_freelist, nalloc, stream, enqlog, out,
                   lastOut, topNsamps, drains, sinkLast, underruns, eofNsamps>>

(* faulty variant: both rates given are taken as they come *)
ResolveRates_nosanity ==
    /\ pc = "resolve"
    /\ LET o == rates.owpm
           c == rates.cwpm
           ow == IF o = -1 /\ c = -1 THEN 5 ELSE IF o = -1 THEN c ELSE o
           cw == IF o = -1 /\ c = -1 THEN 18
                 ELSE IF c = -1 THEN (IF o > 18 THEN o ELSE 18)
                 ELSE c
       IN /\ rates' = [owpm |-> ow, cwpm |-> cw,
                       overallwpm |-> ow, charwpm |-> cw]
          /\ pc' = "open"
    /\ UNCHANGED <<heap, regs, prog, input, fed, iseof, revents, pars, sounds,
                   playhead, pl_freelist, nalloc, stream, enqlog, out,
                   lastOut, topNsamps, drains, sinkLast, underruns, eofNsamps>>

(* the if / else if chain on owpm and cwpm, then the two assignments to    *)
(* the globals                                                             *)
ResolveRates ==
    /\ pc = "resolve"
    /\ LET o == rates.owpm
           c == rates.cwpm
       IN IF o = -1 /\ c = -1
          THEN /\ rates' = [owpm |-> 5, cwpm |-> 18,
                            overallwpm |-> 5, charwpm |-> 18]
               /\ pc' = "open"
          ELSE IF c = -1
          THEN /\ rates' = [owpm |-> o, cwpm |-> IF o > 18 THEN o ELSE 18,
                            overallwpm |-> o,
                            charwpm |-> IF o > 18 THEN o ELSE 18]
               /\ pc' = "open"
          ELSE IF o = -1
          THEN /\ rates' = [owpm |-> c, cwpm |-> c,
                            overallwpm |-> c, charwpm |-> c]
               /\ pc' = "open"
          ELSE IF o > c
          THEN /\ rates' = rates
               /\ pc' = "rate_exit"
          ELSE /\ rates' = [rates EXCEPT !.overallwpm = o, !.charwpm = c]
               /\ pc' = "open"
    /\ UNCHANGED <<heap, regs, prog, input, fed, iseof, revents, pars, sounds,
                   playhead, pl_freelist, nalloc, stream, enqlog, out,
                   lastOut, topNsamps, drains, sinkLast, underruns, eofNsamps>>

(* from the open of the device (poll program) or of the PortAudio stream   *)
(* (callback program) to the call of main_loop: either a call fails and    *)
(* the process ends, or the queue and the sounds are set up                *)
OpenStream ==
    /\ pc = "open"
    /\ \/ /\ pc' = "failed"
          /\ UNCHANGED <<pars, stream, sounds>>
       \/ /\ prog = "poll"
          /\ pc' = "kick"
          /\ pars' = [sp_sampthresh |-> BlockSize * HiWat,
                      sp_blocksize |-> BlockSize, sp_seenspace |-> 0]
          /\ stream' = "none"
          /\ sounds' = BuiltSounds(BlockSize)
       \/ /\ prog = "callback"
          /\ pc' = "top"
          /\ \E ss \in {0, 1} :
                pars' = [sp_sampthresh |-> PaRate,
                         sp_blocksize |-> BlockSize, sp_seenspace |-> ss]
          /\ stream' = "active"
          /\ sounds' = BuiltSounds(BlockSize)
    /\ UNCHANGED <<heap, regs, rates, prog, input, fed, iseof, revents,
                   playhead, pl_freelist, nalloc, enqlog, out,
                   lastOut, topNsamps, drains, sinkLast, underruns, eofNsamps>>

NextCfg ==
    \/ GetOpt
    \/ ResolveRates
    \/ OpenStream

SpecCfg == InitCfg /\ [][NextCfg]_vars

(* ---- build_sounds and time_check, as test_times drives them ---- *)
RECURSIVE Gcd(_, _)
Gcd(a, b) == IF b = 0 THEN a ELSE Gcd(b, a % b)

Abs(x) == IF x < 0 THEN -x ELSE x

(* a * b / d as a fraction [n, d], b and d reduced first *)
MulDiv(a, b, d) ==
    LET g == Gcd(b, d) IN [n |-> a * (b \div g), d |-> d \div g]

(* rintf(x) for the float x the code computes where exact arithmetic      *)
(* gives n/d - half/2: single-precision rounding keeps x within 1/4 of    *)
(* that value for the magnitudes met here, so rintf(x) is an integer       *)
(* within 3/4 of it; where two integers are, either may come out          *)
RintNear(n, d, half) ==
    LET base == (n \div d) - (half \div 2)
        t == 2 * (n % d) - (half % 2) * d
    IN {k \in (base - 1)..(base + 2) :
            2 * Abs((k - base) * 2 * d - t) <= 3 * d}

(* bytes per sample frame: sp_channels * (sp_precision / 8) in the poll   *)
(* program, 1 (one float per sample) in the callback program              *)
FrameBytes(P) ==
    IF prog = "poll" THEN P.sp_channels * (P.sp_precision \div 8) ELSE 1

(* faulty variant: the tone is built without its trailing unit of silence *)
build_snd_nogap(P, units) ==
    RintNear(units * 6 * P.sp_rate, 5 * rates.charwpm, 0)

(* nsamps of build_snd: (units + 1.0) * (1.2 / charwpm) * sp_rate, rounded *)
build_snd(P, units) ==
    RintNear((units + 1) * 6 * P.sp_rate, 5 * rates.charwpm, 0)

(* the else branch: Tc = k * Ta / 19 with                                  *)
(* Ta = (60 charwpm - 37.2 overallwpm) / (charwpm * overallwpm), times     *)
(* sp_rate                                                                 *)
samplen_farnsworth(P, k) ==
    LET o == rates.overallwpm
        c == rates.charwpm
        x == MulDiv(k * (300 * c - 186 * o), P.sp_rate, 95 * c * o)
    IN [n |-> x.n, d |-> x.d, farnsworth |-> TRUE]

(* faulty variant: equal rates take the Farnsworth branch *)
samplen_strict(P, k) ==
    LET o == rates.overallwpm
        c == rates.charwpm
    IN IF o > c
       THEN [n |-> k * 6 * P.sp_rate, d |-> 5 * o, farnsworth |-> FALSE]
       ELSE samplen_farnsworth(P, k)

(* samplen of build_inChar (k = 3) and build_inWord (k = 7), exact:       *)
(* k * (1.2 / overallwpm) * sp_rate when overallwpm >= charwpm, else the   *)
(* Farnsworth length; farnsworth tells which branch was taken              *)
samplen(P, k) ==
    LET o == rates.overallwpm
        c == rates.charwpm
    IN IF o >= c
       THEN [n |-> k * 6 * P.sp_rate, d |-> 5 * o, farnsworth |-> FALSE]
       ELSE samplen_farnsworth(P, k)

(* samples of build_inChar: rintf(samplen - dit_samps / 2.0) *)
build_inChar(P, dit_samps) ==
    LET x == samplen(P, 3) IN RintNear(x.n, x.d, dit_samps)

(* samples of build_inWord: rintf(samplen - (inCharSamp + ditsamp)) *)
build_inWord(P, dit_samps, inCharSamp) ==
    LET x == samplen(P, 7)
    IN RintNear(x.n - inCharSamp * x.d, x.d, dit_samps)

(* time_check: TRUE if it prints, i.e. if e > 1.0 where                    *)
(* e = fabs(sampmin / perword - overallwpm) / overallwpm * 100             *)
time_check(P) ==
    LET fb == FrameBytes(P)
        perword == (10 * sounds["dit"].len) \div fb
                   + (4 * sounds["dah"].len) \div fb
                   + (5 * sounds["inChar"].len) \div fb
                   + (1 * sounds["inWord"].len) \div fb
        sampmin == P.sp_rate * 60
    IN 100 * Abs(sampmin - rates.overallwpm * perword)
           > rates.overallwpm * perword

(* the sample rates and formats the audio device may report to the poll   *)
(* program: 8-bit mono, or the 16-bit stereo fallback                      *)
DeviceRates == {8000}

DeviceFormats == {[channels |-> 1, precision |-> 8],
                  [channels |-> 2, precision |-> 16]}

(* the stream of the callback program: stereo, paFloat32 *)
StreamFormats == {[channels |-> 2, precision |-> 32]}

(* one turn of the double loop of test_times: o in 1..maxwpm, c in         *)
(* o..maxwpm, the sounds not built yet                                     *)
InitTimes ==
    /\ heap = << >>
    /\ regs = NoRegs
    /\ prog \in {"poll", "callback"}
    /\ pc = "sweep"
    /\ \E o \in 1..maxwpm :
          \E c \in o..maxwpm :
             rates = [owpm |-> 5, cwpm |-> 18, overallwpm |-> o, charwpm |-> c]
    /\ \E r \in DeviceRates \cup {SampleRate},
          f \in DeviceFormats \cup StreamFormats :
          /\ prog = "poll" => (r \in DeviceRates /\ f \in DeviceFormats)
          /\ prog = "callback" =>
                (r = SampleRate /\ f = [channels |-> 2, precision |-> 32])
          /\ pars = [sp_rate |-> r, sp_channels |-> f.channels,
                     sp_precision |-> f.precision,
                     sp_sampthresh |-> IF prog = "poll" THEN BlockSize * HiWat
                                                         ELSE r,
                     sp_blocksize |-> BlockSize, sp_seenspace |-> 0,
                     sp_ditlen |-> 0, sp_dahlen |-> 0, sp_inCharlen |-> 0]
    /\ input = << >>
    /\ fed = << >>
    /\ iseof = 0
    /\ revents = [in |-> FALSE, out |-> FALSE]
    /\ stream = IF prog = "poll" THEN "none" ELSE "active"
    /\ sounds = [n \in SoundNames |-> [len |-> 0, buf |-> "null"]]
    /\ playhead = [l |-> << >>, nent |-> 0, nsamps |-> 0]
    /\ pl_freelist = << >>
    /\ nalloc = 0
    /\ enqlog = << >>
    /\ out = << >>
    /\ lastOut = << >>
    /\ topNsamps = -1
    /\ drains = 0
    /\ sinkLast = "none"
    /\ underruns = 0
    /\ eofNsamps = -1

(* build_sounds: dit, dah, inChar, inWord, quietBlock, in this order *)
BuildSounds ==
    /\ pc = "sweep"
    /\ \E ditn \in build_snd(pars, 1), dahn \in build_snd(pars, 3) :
          \E icn \in build_inChar(pars, ditn) :
             \E iwn \in build_inWord(pars, ditn, icn) :
                LET fb == FrameBytes(pars)
                IN /\ sounds' =
                         [n \in SoundNames |->
                             [len |-> CASE n = "dit" -> ditn * fb
                                        [] n = "dah" -> dahn * fb
                                        [] n = "inChar" -> icn * fb
                                        [] n = "inWord" -> iwn * fb
                                        [] OTHER -> pars.sp_blocksize,
                              buf |-> "alloc"]]
                   /\ pars' = [pars EXCEPT !.sp_ditlen = ditn * fb,
                                           !.sp_dahlen = dahn * fb,
                                           !.sp_inCharlen = icn * fb]
    /\ pc' = "built"
    /\ UNCHANGED <<heap, regs, rates, prog, input, fed, iseof, revents,
                   playhead, pl_freelist, nalloc, stream, enqlog, out,
                   lastOut, topNsamps, drains, sinkLast, underruns, eofNsamps>>

(* time_check, then destroy_sounds *)
TimeCheck ==
    /\ pc = "built"
    /\ pc' = IF time_check(pars) THEN "time_error" ELSE "time_ok"
    /\ sounds' = [n \in SoundNames |-> [len |-> 0, buf |-> "null"]]
    /\ UNCHANGED <<heap, regs, rates, prog, input, fed, iseof, revents, pars,
                   playhead, pl_freelist, nalloc, stream, enqlog, out,
                   lastOut, topNsamps, drains, sinkLast, underruns, eofNsamps>>

NextTimes ==
    \/ BuildSounds
    \/ TimeCheck

SpecTimes == InitTimes /\ [][NextTimes]_vars

(* ---- build_sounds, one segment at a time, called again and again ---- *)
(* test_times sets overallwpm and charwpm, calls build_sounds and then     *)
(* destroy_sounds, for one pair of rates after the other, on the same      *)
(* s_params.  Here the pairs come from RebuildRates, in any order and also *)
(* twice in a row.                                                         *)
RebuildRates == {5, 18, 19, 40}

(* what sp_ditlen, sp_dahlen and sp_inCharlen may hold before the first    *)
(* build: pars is a local of main() that nothing clears                    *)
StaleLens == {0, 7777}

NullSounds == [n \in SoundNames |-> [len |-> 0, buf |-> "null"]]

InitBuild ==
    /\ heap = << >>
    /\ regs = NoRegs
    /\ prog \in {"poll", "callback"}
    /\ pc = "build_dit"
    /\ \E o \in RebuildRates, c \in RebuildRates :
          /\ o <= c
          /\ rates = [owpm |-> 5, cwpm |-> 18, overallwpm |-> o, charwpm |-> c]
    /\ \E r \in DeviceRates \cup {SampleRate},
          f \in DeviceFormats \cup StreamFormats,
          dl \in StaleLens, hl \in StaleLens, il \in StaleLens :
          /\ prog = "poll" => (r \in DeviceRates /\ f \in DeviceFormats)
          /\ prog = "callback" =>
                (r = SampleRate /\ f = [channels |-> 2, precision |-> 32])
          /\ pars = [sp_rate |-> r, sp_channels |-> f.channels,
                     sp_precision |-> f.precision,
                     sp_sampthresh |-> IF prog = "poll" THEN BlockSize * HiWat
                                                         ELSE r,
                     sp_blocksize |-> BlockSize, sp_seenspace |-> 0,
                     sp_ditlen |-> dl, sp_dahlen |-> hl, sp_inCharlen |-> il]
    /\ input = << >>
    /\ fed = << >>
    /\ iseof = 0
    /\ revents = [in |-> FALSE, out |-> FALSE]
    /\ stream = IF prog = "poll" THEN "none" ELSE "active"
    /\ sounds = NullSounds
    /\ playhead = [l |-> << >>, nent |-> 0, nsamps |-> 0]
    /\ pl_freelist = << >>
    /\ nalloc = 0
    /\ enqlog = << >>
    /\ out = << >>
    /\ lastOut = << >>
    /\ topNsamps = -1
    /\ drains = 0
    /\ sinkLast = "none"
    /\ underruns = 0
    /\ eofNsamps = -1

(* faulty variant: build_dit leaves sp_ditlen as it was *)
BuildDit_nostore ==
    /\ pc = "build_dit"
    /\ \E n \in build_snd(pars, 1) :
          /\ sounds' = [sounds EXCEPT !["dit"] =
                           [len |-> n * FrameBytes(pars), buf |-> "alloc"]]
          /\ pars' = pars
    /\ pc' = "build_dah"
    /\ UNCHANGED <<heap, regs, rates, prog, input, fed, iseof, revents,
                   playhead, pl_freelist, nalloc, stream, enqlog, out,
                   lastOut, topNsamps, drains, sinkLast, underruns, eofNsamps>>

(* build_dit: build_snd(snd, pars, 1.0), then sp_ditlen = snd->len *)
BuildDit ==
    /\ pc = "build_dit"
    /\ \E n \in build_snd(pars, 1) :
          /\ sounds' = [sounds EXCEPT !["dit"] =
                           [len |-> n * FrameBytes(pars), buf |-> "alloc"]]
          /\ pars' = [pars EXCEPT !.sp_ditlen = n * FrameBytes(pars)]
    /\ pc' = "build_dah"
    /\ UNCHANGED <<heap, regs, rates, prog, input, fed, iseof, revents,
                   playhead, pl_freelist, nalloc, stream, enqlog, out,
                   lastOut, topNsamps, drains, sinkLast, underruns, eofNsamps>>

(* build_dah: build_snd(snd, pars, 3.0), then sp_dahlen = snd->len *)
BuildDah ==
    /\ pc = "build_dah"
    /\ \E n \in build_snd(pars, 3) :
          /\ sounds' = [sounds EXCEPT !["dah"] =
                           [len |-> n * FrameBytes(pars), buf |-> "alloc"]]
          /\ pars' = [pars EXCEPT !.sp_dahlen = n * FrameBytes(pars)]
    /\ pc' = "build_inChar"
    /\ UNCHANGED <<heap, regs, rates, prog, input, fed, iseof, revents,
                   playhead, pl_freelist, nalloc, stream, enqlog, out,
                   lastOut, topNsamps, drains, sinkLast, underruns, eofNsamps>>

(* build_inChar: dit_samps is read from sp_ditlen; sp_inCharlen = snd->len *)
BuildInChar ==
    /\ pc = "build_inChar"
    /\ \E n \in build_inChar(pars, pars.sp_ditlen \div FrameBytes(pars)) :
          /\ sounds' = [sounds EXCEPT !["inChar"] =
                           [len |-> n * FrameBytes(pars), buf |-> "alloc"]]
          /\ pars' = [pars EXCEPT !.sp_inCharlen = n * FrameBytes(pars)]
    /\ pc' = "build_inWord"
    /\ UNCHANGED <<heap, regs, rates, prog, input, fed, iseof, revents,
                   playhead, pl_freelist, nalloc, stream, enqlog, out,
                   lastOut, topNsamps, drains, sinkLast, underruns, eofNsamps>>

(* build_inWord: ditsamp and inCharSamp are read from sp_ditlen and        *)
(* sp_inCharlen                                                            *)
BuildInWord ==
    /\ pc = "build_inWord"
    /\ \E n \in build_inWord(pars, pars.sp_ditlen \div FrameBytes(pars),
                             pars.sp_inCharlen \div FrameBytes(pars)) :
          sounds' = [sounds EXCEPT !["inWord"] =
                        [len |-> n * FrameBytes(pars), buf |-> "alloc"]]
    /\ pc' = "build_quiet"
    /\ UNCHANGED <<heap, regs, rates, prog, input, fed, iseof, revents, pars,
                   playhead, pl_freelist, nalloc, stream, enqlog, out,
                   lastOut, topNsamps, drains, sinkLast, underruns, eofNsamps>>

(* build_quiet: a block of sp_blocksize bytes of silence *)
BuildQuiet ==
    /\ pc = "build_quiet"
    /\ sounds' = [sounds EXCEPT !["quietBlock"] =
                     [len |-> pars.sp_blocksize, buf |-> "alloc"]]
    /\ pc' = "built"
    /\ UNCHANGED <<heap, regs, rates, prog, input, fed, iseof, revents, pars,
                   playhead, pl_freelist, nalloc, stream, enqlog, out,
                   lastOut, topNsamps, drains, sinkLast, underruns, eofNsamps>>

(* destroy_sounds, and the next pair of rates *)
NextTurn ==
    /\ pc = "built"
    /\ sounds' = NullSounds
    /\ \E o \in RebuildRates, c \in RebuildRates :
          /\ o <= c
          /\ rates' = [rates EXCEPT !.overallwpm = o, !.charwpm = c]
    /\ pc' = "build_dit"
    /\ UNCHANGED <<heap, regs, prog, input, fed, iseof, revents, pars,
                   playhead, pl_freelist, nalloc, stream, enqlog, out,
                   lastOut, topNsamps, drains, sinkLast, underruns, eofNsamps>>

NextBuild ==
    \/ BuildDit
    \/ BuildDah
    \/ BuildInChar
    \/ BuildInWord
    \/ BuildQuiet
    \/ NextTurn

SpecBuild == InitBuild /\ [][NextBuild]_vars

(* ---- the callback program, one memory access at a time ---- *)
(* The main thread (fetch_chars -> enqueue_sound) and the audio thread     *)
(* (mp_callback) share playhead and pl_freelist without a lock.  Here the  *)
(* two lists are the STAILQ heads themselves: stqh_first is an entry or 0  *)
(* (NULL), stqh_last names the cell the next insert writes: 0 for          *)
(* &stqh_first, k for &heap[k].pl_nxt.  heap holds the malloc'ed entries;  *)
(* own is a history field (who holds the entry when the list operations    *)
(* run one after the other).                                               *)
EmptyHead == [stqh_first |-> 0, stqh_last |-> 0]

RaceInputs == {s \in Inputs : s # << >> /\ \A i \in 1..Len(s) : s[i] \in {101, 32}}

InitRace ==
    /\ heap = << >>
    /\ regs = NoRegs
    /\ rates = DefaultRates
    /\ prog = "callback"
    /\ pc = "top"
    /\ input \in RaceInputs
    /\ fed = << >>
    /\ iseof = 0
    /\ revents = [in |-> FALSE, out |-> FALSE]
    /\ pars = [sp_sampthresh |-> PaRate, sp_blocksize |-> BlockSize,
               sp_seenspace |-> 0]
    /\ stream = "active"
    /\ sounds = BuiltSounds(pars.sp_blocksize)
    /\ playhead = [l |-> EmptyHead, nent |-> 0, nsamps |-> 0]
    /\ pl_freelist = [l |-> EmptyHead]
    /\ nalloc = 0
    /\ enqlog = << >>
    /\ out = << >>
    /\ lastOut = << >>
    /\ topNsamps = -1
    /\ drains = 0
    /\ sinkLast = "none"
    /\ underruns = 0
    /\ eofNsamps = -1

(* the encoder run on an empty queue: its enqueue log is the list of       *)
(* enqueue_sound calls fetch_chars makes for the bytes c                   *)
SoundsFor(c) ==
    fetch_loop([playhead |-> [l |-> << >>, nent |-> 0, nsamps |-> 0],
                pl_freelist |-> << >>, nalloc |-> 0, enqlog |-> << >>,
                sp_seenspace |-> pars.sp_seenspace], c)

(* main_loop finds nsamps under the threshold, poll reports stdin, and     *)
(* fetch_chars reads r bytes: todo is the calls of enqueue_sound to come   *)
RaceFetch ==
    /\ pc = "top"
    /\ input # << >>
    /\ LtU(playhead.nsamps, pars.sp_sampthresh)
    /\ \E r \in 1..Min(ReadChunk, Len(input)) :
          LET S == SoundsFor(SubSeq(input, 1, r))
          IN /\ regs' = [regs EXCEPT !.todo = S.enqlog]
             /\ pars' = [pars EXCEPT !.sp_seenspace = S.sp_seenspace]
             /\ input' = SubSeq(input, r + 1, Len(input))
             /\ pc' = IF S.enqlog = << >> THEN "top" ELSE "pl_alloc"
    /\ UNCHANGED <<heap, rates, prog, fed, iseof, revents, sounds,
                   playhead, pl_freelist, nalloc, stream, enqlog, out,
                   lastOut, topNsamps, drains, sinkLast, underruns, eofNsamps>>

(* pl_alloc: STAILQ_EMPTY(&pl_freelist.l), and x_malloc if it is *)
PlAllocTest ==
    /\ pc = "pl_alloc"
    /\ IF pl_freelist.l.stqh_first = 0
       THEN /\ heap' = Append(heap, [pl_nxt |-> 0, pl_snd |-> "none",
                                     pl_ptr |-> 0, pl_res |-> 0,
                                     own |-> "main"])
            /\ nalloc' = nalloc + 1
            /\ regs' = [regs EXCEPT !.e = Len(heap) + 1]
            /\ pc' = "pl_alloc_link"
       ELSE /\ pc' = "pl_alloc_first"
            /\ UNCHANGED <<heap, nalloc, regs>>
    /\ UNCHANGED <<rates, prog, input, fed, iseof, revents, pars, sounds,
                   playhead, pl_freelist, stream, enqlog, out,
                   lastOut, topNsamps, drains, sinkLast, underruns, eofNsamps>>

(* STAILQ_INSERT_TAIL(&pl_freelist.l, e): *stqh_last = e *)
PlAllocLink ==
    /\ pc = "pl_alloc_link"
    /\ IF pl_freelist.l.stqh_last = 0
       THEN /\ pl_freelist' = [pl_freelist EXCEPT !.l.stqh_first = regs.e]
            /\ heap' = heap
       ELSE /\ heap' = [heap EXCEPT ![pl_freelist.l.stqh_last].pl_nxt = regs.e]
            /\ pl_freelist' = pl_freelist
    /\ pc' = "pl_alloc_last"
    /\ UNCHANGED <<regs, rates, prog, input, fed, iseof, revents, pars,
                   sounds, playhead, nalloc, stream, enqlog, out,
                   lastOut, topNsamps, drains, sinkLast, underruns, eofNsamps>>

(* STAILQ_INSERT_TAIL(&pl_freelist.l, e): stqh_last = &e->pl_nxt *)
PlAllocLast ==
    /\ pc = "pl_alloc_last"
    /\ pl_freelist' = [pl_freelist EXCEPT !.l.stqh_last = regs.e]
    /\ pc' = "pl_alloc_first"
    /\ UNCHANGED <<heap, regs, rates, prog, input, fed, iseof, revents, pars,
                   sounds, playhead, nalloc, stream, enqlog, out,
                   lastOut, topNsamps, drains, sinkLast, underruns, eofNsamps>>

(* e = STAILQ_FIRST(&pl_freelist.l) and the first half of                  *)
(* STAILQ_REMOVE_HEAD: stqh_first = stqh_first->pl_nxt; a NULL first is    *)
(* dereferenced there                                                      *)
PlAllocFirst ==
    /\ pc = "pl_alloc_first"
    /\ LET f == pl_freelist.l.stqh_first
       IN IF f = 0
          THEN /\ pc' = "segv"
               /\ UNCHANGED <<regs, pl_freelist>>
          ELSE /\ pl_freelist' = [pl_freelist EXCEPT
                                     !.l.stqh_first = heap[f].pl_nxt]
               /\ regs' = [regs EXCEPT !.e = f, !.t = heap[f].pl_nxt]
               /\ pc' = "pl_alloc_rm"
    /\ UNCHANGED <<heap, rates, prog, input, fed, iseof, revents, pars,
                   sounds, playhead, nalloc, stream, enqlog, out,
                   lastOut, topNsamps, drains, sinkLast, underruns, eofNsamps>>

(* the second half of STAILQ_REMOVE_HEAD (stqh_last = &stqh_first if the   *)
(* list became empty), then enqueue_sound fills the entry and              *)
(* STAILQ_INSERT_TAIL(&playhead.l, e) clears e->pl_nxt                     *)
PlAllocRemove ==
    /\ pc = "pl_alloc_rm"
    /\ pl_freelist' = IF regs.t = 0
                      THEN [pl_freelist EXCEPT !.l.stqh_last = 0]
                      ELSE pl_freelist
    /\ heap' = [heap EXCEPT ![regs.e] =
                    [pl_nxt |-> 0, pl_snd |-> Head(regs.todo), pl_ptr |-> 0,
                     pl_res |-> sounds[Head(regs.todo)].len, own |-> "main"]]
    /\ pc' = "enq_link"
    /\ UNCHANGED <<regs, rates, prog, input, fed, iseof, revents, pars,
                   sounds, playhead, nalloc, stream, enqlog, out,
                   lastOut, topNsamps, drains, sinkLast, underruns, eofNsamps>>

(* STAILQ_INSERT_TAIL(&playhead.l, e): *stqh_last = e *)
EnqLink ==
    /\ pc = "enq_link"
    /\ LET h == [heap EXCEPT ![regs.e].own = "queue"]
       IN IF playhead.l.stqh_last = 0
          THEN /\ playhead' = [playhead EXCEPT !.l.stqh_first = regs.e]
               /\ heap' = h
          ELSE /\ heap' = [h EXCEPT ![playhead.l.stqh_last].pl_nxt = regs.e]
               /\ playhead' = playhead
    /\ pc' = "enq_last"
    /\ UNCHANGED <<regs, rates, prog, input, fed, iseof, revents, pars,
                   sounds, pl_freelist, nalloc, stream, enqlog, out,
                   lastOut, topNsamps, drains, sinkLast, underruns, eofNsamps>>

(* STAILQ_INSERT_TAIL(&playhead.l, e): stqh_last = &e->pl_nxt; nent++ *)
EnqLast ==
    /\ pc = "enq_last"
    /\ playhead' = [playhead EXCEPT !.l.stqh_last = regs.e,
                                    !.nent = @ + 1]
    /\ pc' = "enq_load"
    /\ UNCHANGED <<heap, regs, rates, prog, input, fed, iseof, revents, pars,
                   sounds, pl_freelist, nalloc, stream, enqlog, out,
                   lastOut, topNsamps, drains, sinkLast, underruns, eofNsamps>>

(* playhead.nsamps += e->pl_snd->len: the load *)
EnqLoad ==
    /\ pc = "enq_load"
    /\ regs' = [regs EXCEPT !.t = playhead.nsamps]
    /\ pc' = "enq_store"
    /\ UNCHANGED <<heap, rates, prog, input, fed, iseof, revents, pars,
                   sounds, playhead, pl_freelist, nalloc, stream, enqlog, out,
                   lastOut, topNsamps, drains, sinkLast, underruns, eofNsamps>>

(* playhead.nsamps += e->pl_snd->len: the store; enqueue_sound returns *)
EnqStore ==
    /\ pc = "enq_store"
    /\ playhead' = [playhead EXCEPT
                       !.nsamps = regs.t + sounds[Head(regs.todo)].len]
    /\ enqlog' = Append(enqlog, Head(regs.todo))
    /\ regs' = [regs EXCEPT !.todo = Tail(@), !.e = 0, !.t = 0]
    /\ pc' = IF Tail(regs.todo) = << >> THEN "top" ELSE "pl_alloc"
    /\ UNCHANGED <<heap, rates, prog, input, fed, iseof, revents, pars,
                   sounds, pl_freelist, nalloc, stream, out,
                   lastOut, topNsamps, drains, sinkLast, underruns, eofNsamps>>

(* mp_callback, one frame: silence if STAILQ_EMPTY, else the sample under  *)
(* the cursor of the first entry on both channels, pl_ptr++, pl_res--; a   *)
(* cursor never set (an entry fresh from x_malloc) or at the end of its    *)
(* segment reads outside the buffer, and what the thread does from there   *)
(* on is not followed                                                      *)
CbFrame ==
    /\ regs.cbpc = "cb_top"
    /\ LET f == playhead.l.stqh_first
       IN IF f = 0
          THEN /\ lastOut' = <<Frame(Zero, Zero)>>
               /\ UNCHANGED <<heap, regs>>
          ELSE IF \/ heap[f].pl_snd = "none"
                  \/ heap[f].pl_ptr >= sounds[heap[f].pl_snd].len
          THEN /\ lastOut' = <<Frame(Garbage, Garbage)>>
               /\ heap' = heap
               /\ regs' = [regs EXCEPT !.cbpc = "overrun", !.cbe = f]
          ELSE /\ lastOut' =
                     <<Frame(Sample(heap[f].pl_snd, heap[f].pl_ptr),
                             Sample(heap[f].pl_snd, heap[f].pl_ptr))>>
               /\ heap' = [heap EXCEPT ![f].pl_ptr = @ + 1,
                                       ![f].pl_res = DecU(@)]
               /\ regs' = [regs EXCEPT !.cbpc = "cb_load", !.cbe = f]
    /\ UNCHANGED <<rates, prog, pc, input, fed, iseof, revents, pars,
                   sounds, playhead, pl_freelist, nalloc, stream, enqlog, out,
                   topNsamps, drains, sinkLast, underruns, eofNsamps>>

(* playhead.nsamps--: the load *)
CbLoad ==
    /\ regs.cbpc = "cb_load"
    /\ regs' = [regs EXCEPT !.cbpc = "cb_store", !.cbt = playhead.nsamps]
    /\ UNCHANGED <<heap, rates, prog, pc, input, fed, iseof, revents, pars,
                   sounds, playhead, pl_freelist, nalloc, stream, enqlog, out,
                   lastOut, topNsamps, drains, sinkLast, underruns, eofNsamps>>

(* playhead.nsamps--: the store; then the test e->pl_res == 0 *)
CbStore ==
    /\ regs.cbpc = "cb_store"
    /\ playhead' = [playhead EXCEPT !.nsamps = regs.cbt - 1]
    /\ regs' = IF heap[regs.cbe].pl_res = 0
               THEN [regs EXCEPT !.cbpc = "cb_rm", !.cbt = 0]
               ELSE [regs EXCEPT !.cbpc = "cb_top", !.cbe = 0, !.cbt = 0]
    /\ UNCHANGED <<heap, rates, prog, pc, input, fed, iseof, revents, pars,
                   sounds, pl_freelist, nalloc, stream, enqlog, out,
                   lastOut, topNsamps, drains, sinkLast, underruns, eofNsamps>>

(* playhead.nent--, and the first half of STAILQ_REMOVE_HEAD:              *)
(* stqh_first = stqh_first->pl_nxt                                         *)
CbRemove ==
    /\ regs.cbpc = "cb_rm"
    /\ LET f == playhead.l.stqh_first
       IN IF f = 0
          THEN /\ regs' = [regs EXCEPT !.cbpc = "segv"]
               /\ UNCHANGED <<playhead, heap>>
          ELSE /\ playhead' = [playhead EXCEPT
                                  !.nent = @ - 1,
                                  !.l.stqh_first = heap[f].pl_nxt]
               /\ heap' = [heap EXCEPT ![regs.cbe].own = "audio"]
               /\ regs' = [regs EXCEPT !.cbpc = "cb_rm_last",
                                       !.cbt = heap[f].pl_nxt]
    /\ UNCHANGED <<rates, prog, pc, input, fed, iseof, revents, pars,
                   sounds, pl_freelist, nalloc, stream, enqlog, out,
                   lastOut, topNsamps, drains, sinkLast, underruns, eofNsamps>>

(* the second half of STAILQ_REMOVE_HEAD: stqh_last = &stqh_first if the   *)
(* list became empty                                                       *)
CbRemoveLast ==
    /\ regs.cbpc = "cb_rm_last"
    /\ playhead' = IF regs.cbt = 0
                   THEN [playhead EXCEPT !.l.stqh_last = 0]
                   ELSE playhead
    /\ regs' = [regs EXCEPT !.cbpc = "cb_free", !.cbt = 0]
    /\ UNCHANGED <<heap, rates, prog, pc, input, fed, iseof, revents, pars,
                   sounds, pl_freelist, nalloc, stream, enqlog, out,
                   lastOut, topNsamps, drains, sinkLast, underruns, eofNsamps>>

(* pl_free(e), STAILQ_INSERT_TAIL(&pl_freelist.l, e): e->pl_nxt = NULL and *)
(* *stqh_last = e                                                          *)
CbFreeLink ==
    /\ regs.cbpc = "cb_free"
    /\ LET h == [heap EXCEPT ![regs.cbe].pl_nxt = 0,
                             ![regs.cbe].own = "pool"]
       IN IF pl_freelist.l.stqh_last = 0
          THEN /\ pl_freelist' = [pl_freelist EXCEPT
                                     !.l.stqh_first = regs.cbe]
               /\ heap' = h
          ELSE /\ heap' = [h EXCEPT
                             ![pl_freelist.l.stqh_last].pl_nxt = regs.cbe]
               /\ pl_freelist' = pl_freelist
    /\ regs' = [regs EXCEPT !.cbpc = "cb_free_last"]
    /\ UNCHANGED <<rates, prog, pc, input, fed, iseof, revents, pars,
                   sounds, playhead, nalloc, stream, enqlog, out,
                   lastOut, topNsamps, drains, sinkLast, underruns, eofNsamps>>

(* pl_free(e): stqh_last = &e->pl_nxt; on to the next frame *)
CbFreeLast ==
    /\ regs.cbpc = "cb_free_last"
    /\ pl_freelist' = [pl_freelist EXCEPT !.l.stqh_last = regs.cbe]
    /\ regs' = [regs EXCEPT !.cbpc = "cb_top", !.cbe = 0]
    /\ UNCHANGED <<heap, rates, prog, pc, input, fed, iseof, revents, pars,
                   sounds, playhead, nalloc, stream, enqlog, out,
                   lastOut, topNsamps, drains, sinkLast, underruns, eofNsamps>>

MainThread ==
    \/ RaceFetch
    \/ PlAllocTest
    \/ PlAllocLink
    \/ PlAllocLast
    \/ PlAllocFirst
    \/ PlAllocRemove
    \/ EnqLink
    \/ EnqLast
    \/ EnqLoad
    \/ EnqStore

AudioThread ==
    \/ CbFrame
    \/ CbLoad
    \/ CbStore
    \/ CbRemove
    \/ CbRemoveLast
    \/ CbFreeLink
    \/ CbFreeLast

NextRace ==
    \/ MainThread
    \/ AudioThread

SpecRace == InitRace /\ [][NextRace]_vars

(* both threads keep running: the main thread's poll returns, PortAudio     *)
(* keeps calling mp_callback                                               *)
FairRace ==
    InitRace /\ [][NextRace]_vars /\ WF_vars(MainThread) /\ WF_vars(AudioThread)

(***************************************************************************)
(* Properties                                                              *)
(***************************************************************************)
LoopPcs == {"kick", "top", "in", "out"}

TeardownPcs == {"destroy_sounds", "playlist_destroy", "terminate", "done"}

(* destroy_sounds has run: the segment buffers are gone *)
SoundsDestroyed == \E n \in SoundNames : sounds[n].buf = "null"

(* playlist_destroy has run *)
QueueDestroyed == pc \in {"terminate", "done"}

(* the unit the sink receives for one sample: a byte, or a stereo frame *)
Unit(t) == IF prog = "poll" THEN t ELSE Frame(t, t)

SegmentUnits(snd, from, n) == [k \in 1..n |-> Unit(Sample(snd, from + k - 1))]

RECURSIVE EnqueuedUnits(_)
EnqueuedUnits(log) ==
    IF log = << >> THEN << >>
    ELSE SegmentUnits(Head(log), 0, sounds[Head(log)].len)
         \o EnqueuedUnits(Tail(log))

RECURSIVE QueuedUnits(_)
QueuedUnits(l) ==
    IF l = << >> THEN << >>
    ELSE SegmentUnits(Head(l).pl_snd, Head(l).pl_ptr, Head(l).pl_res)
         \o QueuedUnits(Tail(l))

RECURSIVE SumRes(_)
SumRes(l) == IF l = << >> THEN 0 ELSE Head(l).pl_res + SumRes(Tail(l))

(* silence in one operation's output comes last, after the queue ran empty *)
SilenceOnlyWhenEmpty(wr, head) ==
    \A i \in 1..Len(wr) :
        IsSilence(wr[i]) =>
            /\ head.l = << >>
            /\ \A j \in i..Len(wr) : IsSilence(wr[j])

(* C1: while the segments exist, the samples the sink was handed from the  *)
(* queue, followed by the samples still queued, are exactly the enqueued   *)
(* segments in enqueue order (nothing reordered, skipped or duplicated),   *)
(* and a consume operation emits silence only once the queue is empty.     *)
C1_PlaybackOrder ==
    [][ /\ ~SoundsDestroyed' =>
              out' \o QueuedUnits(playhead'.l) = EnqueuedUnits(enqlog')
        /\ (~SoundsDestroyed /\ (FeedAudio \/ MpCallback)) =>
              SilenceOnlyWhenEmpty(lastOut', playhead') ]_vars

(* C1 witness: two segments were played in full, a third in part, after an *)
(* operation that had to substitute silence                                *)
C1_Witness ==
    /\ ~SoundsDestroyed
    /\ underruns > 0
    /\ Len(enqlog) >= 3
    /\ Len(playhead.l) = Len(enqlog) - 2
    /\ playhead.l # << >>
    /\ Head(playhead.l).pl_ptr > 0

(* C2: until playlist_destroy, nsamps is the sum of the entries' pl_res,   *)
(* nent is the number of queued entries, and the queue holds the most      *)
(* recently enqueued segments in enqueue order.                            *)
C2_QueueCounters ==
    ~QueueDestroyed =>
        /\ playhead.nsamps = SumRes(playhead.l)
        /\ playhead.nent = Len(playhead.l)
        /\ Len(playhead.l) <= Len(enqlog)
        /\ [i \in 1..Len(playhead.l) |-> playhead.l[i].pl_snd]
             = SubSeq(enqlog, Len(enqlog) - Len(playhead.l) + 1, Len(enqlog))

C2_Witness ==
    /\ ~QueueDestroyed
    /\ Len(playhead.l) >= 2
    /\ Head(playhead.l).pl_ptr > 0
    /\ Len(enqlog) > Len(playhead.l)

(* C3: while the segments exist, every queued entry has                    *)
(* 0 <= pl_res <= segment length and cursor + pl_res = segment length.     *)
C3_EntryCursor ==
    ~SoundsDestroyed =>
        \A i \in 1..Len(playhead.l) :
            LET e == playhead.l[i]
            IN /\ 0 <= e.pl_res
               /\ e.pl_res <= sounds[e.pl_snd].len
               /\ e.pl_ptr + e.pl_res = sounds[e.pl_snd].len

(* C3 witness: a partly consumed head in front of an untouched entry *)
C3_Witness ==
    /\ ~SoundsDestroyed
    /\ Len(playhead.l) >= 2
    /\ Head(playhead.l).pl_ptr > 0
    /\ Head(playhead.l).pl_res > 0
    /\ playhead.l[2].pl_ptr = 0
    /\ playhead.l[2].pl_res = sounds[playhead.l[2].pl_snd].len

(* C4: in the callback program, when main_loop has seen end-of-input and  *)
(* main() starts to tear down, every queued segment has been played.       *)
C4_DrainBeforeTeardown ==
    (prog = "callback" /\ pc = "destroy_sounds") => playhead.l = << >>

(* C5: the poll program's loop is left only with end-of-input observed and *)
(* the queue empty; AUDIO_DRAIN is issued once, on the way out, and is the *)
(* last thing the sink sees.                                               *)
C5_ExitAndDrain ==
    prog = "poll" =>
        /\ pc \in TeardownPcs =>
              /\ iseof # 0
              /\ playhead.l = << >>
              /\ playhead.nsamps = 0
              /\ drains = 1
              /\ sinkLast = "drain"
        /\ pc \notin TeardownPcs => drains = 0

C5_Witness ==
    /\ prog = "poll"
    /\ pc = "destroy_sounds"
    /\ drains = 1
    /\ Len(out) > BlockSize

(* the states of the poll-driven driver *)
Phase ==
    CASE pc = "failed" -> "FAILED"
      [] pc \in LoopPcs /\ iseof = 0 -> "STREAMING"
      [] pc \in LoopPcs /\ iseof # 0 -> "DRAINING"
      [] OTHER -> "DONE"

(* C6: the poll-driven driver moves only STREAMING -> DRAINING -> DONE     *)
(* (or the process dies on an I/O failure); once end-of-input is observed  *)
(* it stays observed, fetch_chars is not entered again, nothing is read or *)
(* enqueued and nsamps does not grow.                                      *)
C6_Phases ==
    [][ prog = "poll" =>
          /\ \/ Phase' = Phase
             \/ Phase = "STREAMING" /\ Phase' = "DRAINING"
             \/ Phase = "DRAINING" /\ Phase' = "DONE"
             \/ Phase \in {"STREAMING", "DRAINING"} /\ Phase' = "FAILED"
          /\ iseof # 0 =>
                /\ iseof' # 0
                /\ pc' # "in"
                /\ input' = input
                /\ enqlog' = enqlog
                /\ Len(playhead'.l) <= Len(playhead.l)
                /\ playhead'.nsamps <= playhead.nsamps ]_vars

(* C6 witness: draining, back at the top of the loop with audio queued *)
C6_Witness ==
    /\ prog = "poll"
    /\ iseof # 0
    /\ pc = "top"
    /\ playhead.l # << >>
    /\ Len(out) > 0

(* the main thread keeps running, and poll(2) returns: after end-of-input  *)
(* only the audio device is registered, so every return of poll is a       *)
(* moment at which the sink is writable                                    *)
InitPoll == Init /\ prog = "poll"

PollStep ==
    \/ Kick
    \/ LoopTop
    \/ FetchChars
    \/ FeedAudio
    \/ DestroySounds
    \/ PlaylistDestroy

NextPoll ==
    \/ PollStep
    \/ Err

FairSpec == InitPoll /\ [][NextPoll]_vars /\ WF_vars(PollStep)

(* C7: in the poll program, unless an I/O failure ends the process, once   *)
(* end-of-input is observed main_loop eventually returns.                  *)
C7_Terminates ==
    [](pc # "failed") =>
        ((prog = "poll" /\ iseof # 0) ~> (pc \in TeardownPcs))

(* C7 witness: the loop has ended although more than one block was queued  *)
(* when end-of-input was observed                                          *)
C7_Witness ==
    /\ prog = "poll"
    /\ pc = "done"
    /\ eofNsamps > pars.sp_blocksize

(* C8: fetch_chars is entered only in an iteration whose top found         *)
(* nsamps < sp_sampthresh and no end-of-input; with nsamps >= sp_sampthresh *)
(* stdin is not registered and not read.                                   *)
C8_Backpressure ==
    /\ pc = "in" =>
          /\ topNsamps >= 0
          /\ topNsamps < pars.sp_sampthresh
          /\ iseof = 0
    /\ (pc \in {"in", "out"} /\ topNsamps >= pars.sp_sampthresh) => ~revents.in

(* C8 witness: input is pending, but the iteration found the queue at the  *)
(* threshold and goes on to feed the device without reading                *)
C8_Witness ==
    /\ pc = "out"
    /\ input # << >>
    /\ iseof = 0
    /\ topNsamps >= pars.sp_sampthresh
    /\ ~revents.in

(* C9: a consume operation on an empty queue emits silence only (a whole   *)
(* idle block in the poll program), is not an error, and leaves the queue, *)
(* the free pool, nent and nsamps as they were.                            *)
C9_Underrun ==
    [][ (playhead.l = << >> /\ (FeedAudio \/ MpCallback)) =>
          /\ playhead' = playhead
          /\ pl_freelist' = pl_freelist
          /\ nalloc' = nalloc
          /\ out' = out
          /\ pc' # "failed"
          /\ lastOut' # << >>
          /\ \A i \in 1..Len(lastOut') : IsSilence(lastOut'[i])
          /\ prog = "poll" => Len(lastOut') = pars.sp_blocksize ]_vars

(* C9 witness: after two underruns, the last operation played queued       *)
(* samples                                                                 *)
C9_Witness ==
    /\ ~SoundsDestroyed
    /\ underruns = 2
    /\ lastOut # << >>
    /\ ~IsSilence(lastOut[1])

(* the segments a pattern stands for: dit for '.', dah for '-', then the   *)
(* inter-character gap                                                     *)
PatternSegments(p) ==
    [k \in 1..(Len(p) + 1) |->
        IF k = Len(p) + 1 THEN "inChar"
        ELSE IF p[k] = "." THEN "dit" ELSE "dah"]

LowerCase(c) == IF c >= 65 /\ c <= 90 THEN c + 32 ELSE c

(* C10: for a byte whose lower-case form is a Morse Table character with   *)
(* pattern p, convert_char appends |p|+1 fresh entries to the tail: the    *)
(* dits and dahs of p in order, then one inter-character gap; "e" gives    *)
(* dit,gap, "sos" gives the twelve segments of the scenario, and upper     *)
(* case gives what lower case gives.                                       *)
C10_Encode ==
    [][ ConvertChar =>
          /\ \A i \in 1..Len(morse_chars) :
                morse_chars[i].c = LowerCase(Head(input)) =>
                    LET segs == PatternSegments(morse_chars[i].m)
                    IN /\ Len(playhead'.l) = Len(playhead.l) + Len(morse_chars[i].m) + 1
                       /\ SubSeq(playhead'.l, 1, Len(playhead.l)) = playhead.l
                       /\ \A k \in 1..Len(segs) :
                             LET e == playhead'.l[Len(playhead.l) + k]
                             IN /\ e.pl_snd = segs[k]
                                /\ e.pl_ptr = 0
                                /\ e.pl_res = sounds[segs[k]].len
                       /\ enqlog' = enqlog \o segs
          /\ fed' \in {<<101>>, <<69>>} => enqlog' = <<"dit", "inChar">>
          /\ fed' \in {<<115, 111, 115>>, <<83, 79, 83>>, <<83, 111, 115>>} =>
                enqlog' = <<"dit", "dit", "dit", "inChar",
                            "dah", "dah", "dah", "inChar",
                            "dit", "dit", "dit", "inChar">> ]_vars

(* C10 witness: "SOS" in upper case has been encoded into twelve entries *)
C10_Witness ==
    /\ pc = "encode"
    /\ fed = <<83, 79, 83>>
    /\ Len(playhead.l) = 12
    /\ playhead.l[5].pl_snd = "dah"

(* a byte of the Morse Table, and the whitespace bytes of the "C" locale *)
InTable(c) == \E i \in 1..Len(morse_chars) : morse_chars[i].c = c

IsWhite(c) == c \in {9, 10, 11, 12, 13, 32}

Unsupported(c) == ~IsWhite(c) /\ ~InTable(LowerCase(c))

(* C11: a byte that is neither whitespace nor (lower-cased) in the Morse   *)
(* Table, bytes of 0x80 and above included, enqueues nothing: the queue,   *)
(* nent, nsamps and the entry pool are as before, no gap is added.         *)
C11_MissEnqueuesNothing ==
    [][ (FetchByte /\ Unsupported(Head(input))) =>
            /\ playhead' = playhead
            /\ enqlog' = enqlog
            /\ pl_freelist' = pl_freelist
            /\ nalloc' = nalloc ]_vars

(* C11 witness: after "e", '@' and a byte above 0x7f have been fed and     *)
(* the queue still holds what "e" put there                                *)
C11_Witness ==
    /\ pc = "fetch"
    /\ fed = <<101, 64, 200>>
    /\ enqlog = <<"dit", "inChar">>
    /\ playhead.nent = 2

(* C12: an unsupported byte leaves sp_seenspace as it was before the byte, *)
(* whichever value it had.                                                 *)
C12_MissKeepsFlag ==
    [][ (FetchByte /\ Unsupported(Head(input))) =>
            pars'.sp_seenspace = pars.sp_seenspace ]_vars

(* the number of maximal runs of whitespace in s *)
Runs(s) ==
    Cardinality({i \in 1..Len(s) :
                    IsWhite(s[i]) /\ (i = 1 \/ ~IsWhite(s[i - 1]))})

Count(log, snd) == Cardinality({i \in 1..Len(log) : log[i] = snd})

(* C13: a whitespace byte met with the flag clear enqueues one inter-word  *)
(* gap at the tail and sets the flag; met with the flag set it enqueues    *)
(* nothing; any other byte clears the flag; so, starting with the flag     *)
(* clear, there is one inter-word gap per maximal run of whitespace.       *)
C13_WhitespaceCollapsed ==
    [][ FetchByte =>
          /\ (IsWhite(Head(input)) /\ pars.sp_seenspace = 0) =>
                /\ enqlog' = Append(enqlog, "inWord")
                /\ playhead'.nent = playhead.nent + 1
                /\ pars'.sp_seenspace = 1
          /\ (IsWhite(Head(input)) /\ pars.sp_seenspace # 0) =>
                /\ enqlog' = enqlog
                /\ playhead' = playhead
                /\ pars'.sp_seenspace = pars.sp_seenspace
          /\ ~IsWhite(Head(input)) => pars'.sp_seenspace = 0
          /\ prog = "poll" => Count(enqlog', "inWord") = Runs(fed') ]_vars

(* C13 witness: space, tab, "e", space: two runs, two inter-word gaps *)
C13_Witness ==
    /\ pc = "fetch"
    /\ prog = "poll"
    /\ fed = <<32, 9, 101, 32>>
    /\ enqlog = <<"inWord", "dit", "inChar", "inWord">>

(* C14: the rate chain of main() rejects exactly the case of both rates    *)
(* given with overall > character, and does so before the stream is       *)
(* opened (nothing follows the exit); only overall gives character =      *)
(* max(overall, 18); only character gives overall = character; neither     *)
(* gives 5 and 18; so main_loop is only entered with charwpm >= overallwpm *)
(* (5/18 goes on, 20/5 is rejected).                                       *)
C14_RateResolution ==
    [][ /\ pc \notin {"rate_exit", "usage_exit"}
        /\ ResolveRates =>
              LET o == rates.owpm
                  c == rates.cwpm
              IN /\ (o # -1 /\ c # -1 /\ o > c) =>
                        pc' = "rate_exit"
                 /\ (o # -1 /\ c # -1 /\ o <= c) =>
                        /\ pc' = "open"
                        /\ rates'.overallwpm = o
                        /\ rates'.charwpm = c
                 /\ (o # -1 /\ c = -1) =>
                        /\ pc' = "open"
                        /\ rates'.overallwpm = o
                        /\ rates'.charwpm = IF o >= 18 THEN o ELSE 18
                 /\ (o = -1 /\ c # -1) =>
                        /\ pc' = "open"
                        /\ rates'.overallwpm = c
                        /\ rates'.charwpm = c
                 /\ (o = -1 /\ c = -1) =>
                        /\ pc' = "open"
                        /\ rates'.overallwpm = 5
                        /\ rates'.charwpm = 18
                 /\ (o = 5 /\ c = 18) => pc' = "open"
                 /\ (o = 20 /\ c = 5) => pc' = "rate_exit"
        /\ pc' \in LoopPcs =>
              /\ pc = "open"
              /\ rates'.charwpm >= rates'.overallwpm
              /\ rates'.overallwpm >= MinRate
              /\ rates'.charwpm <= MaxRate ]_vars

(* C14 witness: -w 20 -c 25 was accepted and the stream loop is about to   *)
(* start with these rates                                                  *)
C14_Witness ==
    /\ pc \in LoopPcs
    /\ rates = [owpm |-> 20, cwpm |-> 25, overallwpm |-> 20, charwpm |-> 25]
    /\ sounds["dit"].buf = "alloc"

(* C15: whatever the rates with overallwpm <= charwpm, the built lengths   *)
(* are strictly ordered: dit < dah < inChar < inWord.                      *)
C15_LengthOrder ==
    pc = "built" =>
        /\ sounds["dit"].len < sounds["dah"].len
        /\ sounds["dah"].len < sounds["inChar"].len
        /\ sounds["inChar"].len < sounds["inWord"].len

(* samples of the word PARIS: 10 dits, 4 dahs, 5 inter-character gaps and  *)
(* 1 inter-word gap                                                        *)
ParisSamples ==
    (10 * sounds["dit"].len + 4 * sounds["dah"].len
     + 5 * sounds["inChar"].len + sounds["inWord"].len) \div FrameBytes(pars)

(* C16: for every pair of the sweep, the words per minute PARIS comes to   *)
(* with the built lengths, sp_rate * 60 / ParisSamples, is within 1% of    *)
(* overallwpm, and time_check reports nothing.                             *)
C16_ParisRate ==
    /\ pc = "built" =>
          /\ ParisSamples > 0
          /\ 100 * (pars.sp_rate * 60) <= 101 * rates.overallwpm * ParisSamples
          /\ 100 * (pars.sp_rate * 60) >= 99 * rates.overallwpm * ParisSamples
          /\ ~time_check(pars)
    /\ pc # "time_error"

(* C16 witness: the check has passed for the pair 5/18 at 44100 Hz *)
C16_Witness ==
    /\ pc = "time_ok"
    /\ prog = "callback"
    /\ rates.overallwpm = 5
    /\ rates.charwpm = 18
    /\ pars.sp_ditlen = 5880
    /\ pars.sp_dahlen = 11760
    /\ pars.sp_inCharlen = 66227

(* what is left of the queue l once its first m samples are gone: the     *)
(* remaining entries lose nothing, the entries used up are unlinked        *)
QueueAfter(l, lnew, m) ==
    /\ QueuedUnits(lnew) = SubSeq(QueuedUnits(l), m + 1, Len(QueuedUnits(l)))
    /\ \A i \in 1..Len(lnew) : lnew[i].pl_res > 0
    /\ Len(lnew) <= Len(l)
    /\ \A i \in 1..Len(lnew) :
          LET e == l[Len(l) - Len(lnew) + i]
          IN /\ lnew[i].slot = e.slot
             /\ lnew[i].pl_snd = e.pl_snd
             /\ i > 1 => lnew[i] = e

(* C17: mp_callback with F frames on a queue of T samples writes F stereo  *)
(* frames: the next min(F, T) queued samples in order, each on both        *)
(* channels, then zeros; nsamps falls by min(F, T); the entries used up    *)
(* are unlinked from the head and given to the free list. (The samples     *)
(* are those of the segments as long as destroy_sounds has not run.)       *)
C17_CallbackRefill ==
    [][ MpCallback =>
          LET F == Len(lastOut')
              T == SumRes(playhead.l)
              m == Min(F, T)
              U == QueuedUnits(playhead.l)
          IN /\ F \in 1..MaxFrames
             /\ \A k \in 1..F : lastOut'[k].left = lastOut'[k].right
             /\ ~SoundsDestroyed => \A k \in 1..m : lastOut'[k] = U[k]
             /\ \A k \in (m + 1)..F : lastOut'[k] = Frame(Zero, Zero)
             /\ playhead'.nsamps = playhead.nsamps - m
             /\ QueueAfter(playhead.l, playhead'.l, m)
             /\ playhead'.nent - Len(playhead'.l)
                    = playhead.nent - Len(playhead.l)
             /\ Len(pl_freelist')
                    = Len(pl_freelist) + Len(playhead.l) - Len(playhead'.l)
             /\ enqlog' = enqlog ]_vars

(* C17 witness: a refill that used up the head entry, took one sample of   *)
(* the next and left it at the head                                        *)
C17_Witness ==
    /\ prog = "callback"
    /\ ~SoundsDestroyed
    /\ Len(lastOut) = 2
    /\ lastOut[1].left.snd = "dit"
    /\ lastOut[2] = Frame(Sample("inChar", 0), Sample("inChar", 0))
    /\ playhead.l # << >>
    /\ Head(playhead.l).pl_ptr = 1
    /\ pl_freelist # << >>

(* C18: feed_audio hands write(2) sp_blocksize bytes in all: the next      *)
(* min(sp_blocksize, nsamps) queued bytes in queue order, then, only if    *)
(* the queue ran empty, the start of the idle block; the entries used up   *)
(* are unlinked, the last one touched stays at the head with its cursor    *)
(* advanced; nsamps falls by min(sp_blocksize, nsamps).                    *)
C18_FeedBlock ==
    [][ FeedAudio =>
          LET B == pars.sp_blocksize
              m == Min(B, playhead.nsamps)
              U == QueuedUnits(playhead.l)
          IN /\ Len(lastOut') = B
             /\ m = Min(B, SumRes(playhead.l))
             /\ \A k \in 1..m : lastOut'[k] = U[k]
             /\ \A k \in (m + 1)..B :
                   lastOut'[k] = Sample("quietBlock", k - m - 1)
             /\ m < B => playhead'.l = << >>
             /\ playhead'.nsamps = playhead.nsamps - m
             /\ QueueAfter(playhead.l, playhead'.l, m)
             /\ playhead'.nent = Len(playhead'.l)
             /\ Len(pl_freelist')
                    = Len(pl_freelist) + Len(playhead.l) - Len(playhead'.l)
             /\ enqlog' = enqlog ]_vars

(* C18 witness: a block made of the last byte of a dah and the first byte  *)
(* of the gap after it, the gap left at the head                           *)
C18_Witness ==
    /\ prog = "poll"
    /\ lastOut = <<Sample("dah", 2), Sample("inChar", 0)>>
    /\ playhead.l # << >>
    /\ Head(playhead.l).pl_snd = "inChar"
    /\ Head(playhead.l).pl_ptr = 1
    /\ Head(playhead.l).pl_res = 1

(* the entries reached from a STAILQ head by following pl_nxt *)
RECURSIVE ChainFrom(_, _)
ChainFrom(a, fuel) ==
    IF a = 0 \/ fuel = 0 THEN << >>
    ELSE <<a>> \o ChainFrom(heap[a].pl_nxt, fuel - 1)

Chain(head) == ChainFrom(head.stqh_first, Len(heap) + 1)

Range(f) == {f[i] : i \in DOMAIN f}

RECURSIVE ChainRes(_)
ChainRes(c) == IF c = << >> THEN 0 ELSE heap[Head(c)].pl_res + ChainRes(Tail(c))

(* both threads are between operations: the main thread outside            *)
(* enqueue_sound, the audio thread at the top of a frame                   *)
Quiescent == pc \in {"top", "pl_alloc"} /\ regs.cbpc = "cb_top"

(* C19: with enqueue_sound and mp_callback interleaved at will, no entry   *)
(* is in the playback queue and in the free list at once, pl_alloc hands   *)
(* out no entry that is still linked in the playback queue, and every      *)
(* entry enqueued and not yet removed by the callback is in the queue.     *)
C19_EntryOwnership ==
    /\ Quiescent =>
          /\ Range(Chain(playhead.l)) \cap Range(Chain(pl_freelist.l)) = {}
          /\ \A k \in 1..Len(heap) :
                heap[k].own = "queue" => k \in Range(Chain(playhead.l))
    /\ pc = "enq_link" => regs.e \notin Range(Chain(playhead.l))

(* C20: with nsamps += len and nsamps-- interleaved at will, whenever both *)
(* threads are between operations nsamps is the sum of pl_res over the     *)
(* queued entries, is not negative, and is under the threshold when the    *)
(* queue is empty.                                                         *)
C20_NsampsExact ==
    Quiescent =>
        /\ playhead.nsamps = ChainRes(Chain(playhead.l))
        /\ playhead.nsamps >= 0
        /\ playhead.l.stqh_first = 0 =>
              playhead.nsamps < pars.sp_sampthresh

(* ---- the pool of queue entries ---- *)
Max(a, b) == IF a > b THEN a ELSE b

(* the slots linked in the playback queue and in the free pool *)
SlotsOf(l) == {l[i].slot : i \in 1..Len(l)}

(* C21: between playlist_init and playlist_destroy the slots allocated so   *)
(* far are exactly those of the queue and of the free pool, each in one     *)
(* place (nalloc = nent + size of the pool); an operation that enqueues k   *)
(* entries allocates only what the pool cannot supply, max(0, k - pool);    *)
(* consumers neither allocate nor destroy; and whenever a slot is allocated *)
(* the queue then holds every slot, so that nalloc, which nent never        *)
(* exceeds, is the largest queue length reached so far.                     *)
C21_SlotsPooled ==
    /\ [](~QueueDestroyed =>
             /\ nalloc = playhead.nent + Len(pl_freelist)
             /\ playhead.nent = Len(playhead.l)
             /\ SlotsOf(playhead.l) \cup SlotsOf(pl_freelist) = 1..nalloc
             /\ SlotsOf(playhead.l) \cap SlotsOf(pl_freelist) = {})
    /\ [][LET k == Len(enqlog') - Len(enqlog)
          IN /\ nalloc' = nalloc + Max(0, k - Len(pl_freelist))
             /\ nalloc' > nalloc =>
                   /\ playhead'.nent = nalloc'
                   /\ pl_freelist' = << >>
             /\ (k = 0 /\ ~QueueDestroyed') =>
                   SlotsOf(playhead'.l) \cup SlotsOf(pl_freelist')
                       = SlotsOf(playhead.l) \cup SlotsOf(pl_freelist)]_vars

(* two slots were allocated for the first letter, both went back to the    *)
(* pool, and the second letter reused them: four enqueues, two slots, one  *)
(* of them in the pool again                                               *)
C21_Witness ==
    /\ pc \in LoopPcs
    /\ nalloc = 2
    /\ Len(enqlog) = 4
    /\ playhead.nent = 1
    /\ Len(pl_freelist) = 1

(* ---- building the segments again ---- *)
(* the lengths <<dit, dah, inChar, inWord>> a build can give for the rates *)
(* and the format in force, each gap computed from the lengths of this     *)
(* build; more than one only where a length falls within the float error   *)
(* of a rounding boundary                                                  *)
LengthsOfConfig ==
    LET fb == FrameBytes(pars)
    IN UNION {UNION {UNION {{<<d * fb, h * fb, ic * fb, iw * fb>> :
                                iw \in build_inWord(pars, d, ic)} :
                            ic \in build_inChar(pars, d)} :
                     h \in build_snd(pars, 3)} :
              d \in build_snd(pars, 1)}

BuiltLengths ==
    <<sounds["dit"].len, sounds["dah"].len, sounds["inChar"].len,
      sounds["inWord"].len>>

(* C22: whatever builds went before and whatever they left in s_params,    *)
(* the lengths build_sounds produces are those of the current rates,       *)
(* sample rate and format alone, so that building again from the same      *)
(* configuration gives the same lengths.                                   *)
C22_RebuildSameLengths ==
    pc = "built" =>
        /\ BuiltLengths \in LengthsOfConfig
        /\ pars.sp_ditlen = sounds["dit"].len
        /\ pars.sp_dahlen = sounds["dah"].len
        /\ pars.sp_inCharlen = sounds["inChar"].len

(* the callback program has built at 18/40 wpm, a configuration that     *)
(* leaves one choice of lengths only                                       *)
C22_Witness ==
    /\ prog = "callback"
    /\ pc = "built"
    /\ rates.overallwpm = 18 /\ rates.charwpm = 40
    /\ LengthsOfConfig = {<<2646, 5292, 15412, 22313>>}
    /\ BuiltLengths = <<2646, 5292, 15412, 22313>>

(* ---- the boundary overallwpm = charwpm ---- *)
(* C23: at equal rates build_inChar and build_inWord take the branch       *)
(* overallwpm >= charwpm, their lengths are 3 and 7 units of               *)
(* 1.2 / overallwpm less what the tones already carry, and the lengths the *)
(* Farnsworth formula gives for the same rates differ from them by one     *)
(* sample at most                                                          *)
C23_BoundaryBranch ==
    (pc = "built" /\ rates.overallwpm = rates.charwpm) =>
        LET fb == FrameBytes(pars)
            d == sounds["dit"].len \div fb
            ic == sounds["inChar"].len \div fb
            iw == sounds["inWord"].len \div fb
            f3 == samplen_farnsworth(pars, 3)
            f7 == samplen_farnsworth(pars, 7)
        IN /\ ~samplen(pars, 3).farnsworth
           /\ ~samplen(pars, 7).farnsworth
           /\ ic \in RintNear(3 * 6 * pars.sp_rate, 5 * rates.overallwpm, d)
           /\ iw \in RintNear(7 * 6 * pars.sp_rate
                                 - ic * 5 * rates.overallwpm,
                              5 * rates.overallwpm, d)
           /\ \A g \in RintNear(f3.n, f3.d, d) : Abs(ic - g) <= 1
           /\ \A g \in RintNear(f7.n - ic * f7.d, f7.d, d) : Abs(iw - g) <= 1

(* the callback program built at 20/20 wpm *)
C23_Witness ==
    /\ pc = "built"
    /\ prog = "callback"
    /\ rates.overallwpm = 20 /\ rates.charwpm = 20
    /\ sounds["dit"].len = 5292
    /\ sounds["inChar"].len = 5292
    /\ sounds["inWord"].len = 10584

(* ---- reads of any size ---- *)
(* the encoder started on an empty queue with the flag ss0 and given the   *)
(* bytes c in a single read                                                *)
SingleRead(ss0, c) ==
    fetch_loop([playhead |-> [l |-> << >>, nent |-> 0, nsamps |-> 0],
                pl_freelist |-> << >>, nalloc |-> 0, enqlog |-> << >>,
                sp_seenspace |-> ss0], c)

(* C24: however the bytes read so far were split into reads, the entries   *)
(* enqueued and the seen-space flag are those of a single read of the same *)
(* bytes (from the flag the program started with: 0 in the poll program,   *)
(* whatever pars held in the callback program)                             *)
C24_ChunkIndependent ==
    \E ss0 \in {0, 1} :
        /\ prog = "poll" => ss0 = 0
        /\ enqlog = SingleRead(ss0, fed).enqlog
        /\ pars.sp_seenspace = SingleRead(ss0, fed).sp_seenspace
        /\ playhead = SingleRead(ss0, fed).playhead

(* a read has ended inside a run of whitespace: 'e' and a space are in,    *)
(* the next byte to be read is another space                               *)
C24_Witness ==
    /\ prog = "poll"
    /\ fed = <<101, 32>>
    /\ input = <<32, 101>>
    /\ pars.sp_seenspace = 1
    /\ enqlog = <<"dit", "inChar", "inWord">>

(* ---- how far the queue can fill ---- *)
RECURSIVE PatternSamples(_)
PatternSamples(m) ==
    IF m = << >> THEN 0
    ELSE (IF Head(m) = "." THEN sounds["dit"].len ELSE sounds["dah"].len)
         + PatternSamples(Tail(m))

(* the most one input byte can enqueue: the longest pattern of the table   *)
(* with its inter-character gap, or an inter-word gap                      *)
MaxByteSamples ==
    LET S == {PatternSamples(morse_chars[i].m) + sounds["inChar"].len :
                 i \in 1..Len(morse_chars)} \cup {sounds["inWord"].len}
    IN CHOOSE x \in S : \A y \in S : y <= x

(* C25: in the stream loop nsamps never exceeds                            *)
(* sp_sampthresh - 1 + 64 * M, M the most one byte can enqueue              *)
C25_FillBounded ==
    pc \in LoopPcs =>
        playhead.nsamps <= pars.sp_sampthresh - 1 + ReadChunk * MaxByteSamples

(* the bound is met: a read found the queue one sample under the threshold *)
(* and took 64 bytes of the longest pattern                                *)
C25_Witness ==
    /\ pc \in LoopPcs
    /\ playhead.nsamps = pars.sp_sampthresh - 1 + ReadChunk * MaxByteSamples
    /\ input = << >>

(* ---- reads through the cursor and the allocation ---- *)
InAllocation(u) == (u.off + 1) * ElemBytes <= AllocBytes(u.snd)

(* C26: every sample mp_callback has read through an entry's cursor lies   *)
(* inside the memory allocated for the entry's segment                     *)
C26_ReadsInsideBuffer ==
    (prog = "callback" /\ pc \in LoopPcs) =>
        \A k \in 1..Len(lastOut) :
            lastOut[k].left # Zero => InAllocation(lastOut[k].left)

(* ---- the callback and the teardown ---- *)
(* C27: no call of mp_callback that finds an entry in the queue runs once  *)
(* destroy_sounds has released the segment buffers or playlist_destroy the *)
(* entries: the callback never reads through a released entry or buffer    *)
C27_NoCallbackAfterRelease ==
    [][ (MpCallback /\ playhead.l # << >>) =>
            (~SoundsDestroyed /\ ~QueueDestroyed) ]_vars

(* ---- starvation of the input ---- *)
(* C28: with both threads running and sp_sampthresh > 0, input that is     *)
(* pending is eventually read: every byte of stdin is eventually taken by  *)
(* fetch_chars                                                             *)
C28_InputNotStarved ==
    (input # << >>) ~> (input = << >>)

(* the state a lost update leaves behind: input pending, both threads      *)
(* between operations, nothing queued, and nsamps not below the threshold  *)
StarvedForever ==
    /\ input # << >>
    /\ Quiescent
    /\ playhead.l.stqh_first = 0
    /\ ~LtU(playhead.nsamps, pars.sp_sampthresh)

(* ---- feed_audio on a device that accepts part of a write ---- *)
(* write(2) returns r, the number of bytes the device took: any count from *)
(* 1 to the count asked for (-1 is Err).  feed_audio tests r against -1    *)
(* only.  C: [playhead, pl_freelist, wr, got]; wr collects the bytes       *)
(* passed to write, got the bytes the device took.  The result is the set  *)
(* of outcomes of the call.                                                *)
Accepted(bytes) == {SubSeq(bytes, 1, r) : r \in 1..Len(bytes)}

RECURSIVE feed_loop_rw(_, _)
feed_loop_rw(C, res) ==
    IF res = 0 THEN {C}
    ELSE IF C.playhead.l = << >>
    THEN LET b == WriteBytes("quietBlock", 0, res)
         IN {[C EXCEPT !.wr = @ \o b, !.got = @ \o a] : a \in Accepted(b)}
    ELSE LET e == Head(C.playhead.l)
         IN IF e.pl_res > res
            THEN LET b == WriteBytes(e.pl_snd, e.pl_ptr, res)
                 IN {[C EXCEPT !.wr = @ \o b,
                               !.got = @ \o a,
                               !.playhead.l = <<[e EXCEPT !.pl_ptr = @ + res,
                                                          !.pl_res = @ - res]>>
                                              \o Tail(@),
                               !.playhead.nsamps = @ - res] : a \in Accepted(b)}
            ELSE LET b == WriteBytes(e.pl_snd, e.pl_ptr, e.pl_res)
                 IN UNION {feed_loop_rw(
                              pl_free([C EXCEPT
                                         !.wr = @ \o b,
                                         !.got = @ \o a,
                                         !.playhead = [l |-> Tail(@.l),
                                                       nent |-> @.nent - 1,
                                                       nsamps |-> @.nsamps - e.pl_res]],
                                      e),
                              res - e.pl_res) : a \in Accepted(b)}

ConsStateRw ==
    [playhead |-> playhead, pl_freelist |-> pl_freelist, wr |-> << >>,
     got |-> << >>]

(* the POLLOUT branch; out records the queue's bytes the device took *)
FeedAudioRw ==
    /\ pc = "out"
    /\ \E C \in feed_loop_rw(ConsStateRw, pars.sp_blocksize) :
          /\ playhead' = C.playhead
          /\ pl_freelist' = C.pl_freelist
          /\ lastOut' = C.wr
          /\ out' = out \o FromQueue(C.got)
          /\ underruns' = IF playhead.l = << >> THEN Min(underruns + 1, 2)
                          ELSE underruns
          /\ IF LoopExit(iseof, C.playhead)
             THEN /\ drains' = drains + 1
                  /\ sinkLast' = "drain"
                  /\ pc' = "destroy_sounds"
             ELSE /\ drains' = drains
                  /\ sinkLast' = "write"
                  /\ pc' = "top"
    /\ revents' = [revents EXCEPT !.out = FALSE]
    /\ topNsamps' = -1
    /\ UNCHANGED <<heap, regs, rates, prog, input, fed, iseof, pars, sounds,
                   nalloc, stream, enqlog, eofNsamps>>

NextRw ==
    \/ Kick
    \/ LoopTop
    \/ FetchChars
    \/ FeedAudioRw
    \/ DestroySounds
    \/ PlaylistDestroy
    \/ Err

SpecRw == InitPoll /\ [][NextRw]_vars

(* C29: a call of feed_audio takes from the queue exactly the bytes the    *)
(* device accepted: nsamps drops by their number, and the bytes accepted   *)
(* so far followed by the bytes still queued (from each entry's cursor,    *)
(* pl_res of them) are the same sequence before and after the call, so no  *)
(* queued byte is skipped.                                                 *)
C29_ShortWriteKept ==
    [][ FeedAudioRw =>
          /\ playhead.nsamps - playhead'.nsamps = Len(out') - Len(out)
          /\ out' \o QueuedUnits(playhead'.l) = out \o QueuedUnits(playhead.l)
      ]_vars

====
